---- MODULE Spec2Model ----
(***************************************************************************)
(* Model of the index-mapping helpers of google-docs-mcp                   *)
(* (src/src/googleDocsApiHelpers.ts): findTextRange, getParagraphRange,    *)
(* the style request builders and the hex colour helpers they call.        *)
(*                                                                         *)
(* Text is a sequence of one-character strings (a JavaScript string seen   *)
(* as its UTF-16 code units); logical positions are 0-based as in          *)
(* JavaScript, native offsets are the document API's.  A JavaScript value  *)
(* that may be null/undefined is a sequence: <<>> when absent, <<v>> when  *)
(* present.  Records list their fields in alphabetical order.             *)
(***************************************************************************)
EXTENDS Integers, Sequences, FiniteSets, TLC

\* ------------------------------------------------------------------ bounds
\* Longest logical string of a generated snapshot, and longest search string.
MaxTextLen == 3
\* Largest requested occurrence number.
MaxInstance == 3
\* Deepest nesting of tables within table cells in a generated snapshot.
MaxDepth == 2

Alphabet == {"a", "b"}

\* ------------------------------------------------------- JavaScript values
\* `let startIndex = -1; let endIndex = -1;` and indexOf's "not found".
NotMapped == -1
\* An absent startIndex/endIndex property (the API omits a zero startIndex).
Undefined == -2
Null == <<>>
Some(v) == <<v>>

\* ------------------------------------------------------------ text helpers
RECURSIVE SeqsUpTo(_, _)
\* All sequences over S of length 0..n.
SeqsUpTo(S, n) ==
    IF n = 0 THEN {<<>>}
    ELSE LET shorter == SeqsUpTo(S, n - 1)
         IN  shorter \cup {Append(t, c) : t \in {u \in shorter : Len(u) = n - 1}, c \in S}

\* s.substring(from, from + n), 0-based.
Slice(s, from, n) == [k \in 1..n |-> s[from + k]]

\* Whether pat occurs in s at 0-based position p.
OccursAt(s, pat, p) ==
    /\ p >= 0
    /\ p + Len(pat) <= Len(s)
    /\ \A k \in 1..Len(pat) : s[p + k] = pat[k]

\* Mutant of indexOf: a search that finds nothing from fromIndex on wraps around
\* to the start of the string.
indexOf_Wraps(s, pat, fromIndex) ==
    LET hits  == {p \in 0..Len(s) : OccursAt(s, pat, p)}
        after == {p \in hits : p >= fromIndex}
    IN  IF hits = {} THEN NotMapped
        ELSE IF after = {} THEN CHOOSE p \in hits : \A q \in hits : p <= q
        ELSE CHOOSE p \in after : \A q \in after : p <= q

\* String.prototype.indexOf(pat, fromIndex): the smallest position >= fromIndex
\* (clamped to [0, length]) where pat occurs, or -1.
indexOf(s, pat, fromIndex) ==
    LET from == IF fromIndex < 0 THEN 0
                ELSE IF fromIndex > Len(s) THEN Len(s) ELSE fromIndex
        hits == {p \in from..Len(s) : OccursAt(s, pat, p)}
    IN  IF hits = {} THEN NotMapped
        ELSE CHOOSE p \in hits : \A q \in hits : p <= q

\* ------------------------------------------------------ document snapshots
\* A paragraph element: a text run with its content, or a non-text inline
\* element (inline object, page break, ...) that occupies one native offset.
TextRunElement(text, s) ==
    [endIndex |-> s + Len(text), startIndex |-> s, textRun |-> Some(text)]
InlineElement(s) ==
    [endIndex |-> s + 1, startIndex |-> s, textRun |-> Null]

RECURSIVE ParagraphElements(_, _, _, _)
\* The runs laid out from native offset s on, run i first; a non-text inline
\* element follows run number gap (none when gap is no run's number).
ParagraphElements(runs, gap, i, s) ==
    IF i > Len(runs) THEN <<>>
    ELSE LET e == TextRunElement(runs[i], s)
         IN  IF i = gap
             THEN <<e, InlineElement(e.endIndex)>>
                      \o ParagraphElements(runs, gap, i + 1, e.endIndex + 1)
             ELSE <<e>> \o ParagraphElements(runs, gap, i + 1, e.endIndex)

\* A structural element of the body or of a table cell.
Paragraph(elems) ==
    [endIndex |-> elems[Len(elems)].endIndex, elements |-> elems,
     kind |-> "paragraph", startIndex |-> elems[1].startIndex,
     tableRows |-> <<>>]
\* A paragraph that holds no text: one non-text inline element.
EmptyParagraph(s) == Paragraph(<<InlineElement(s)>>)
Table(s, e, rows) ==
    [endIndex |-> e, elements |-> <<>>, kind |-> "table", startIndex |-> s,
     tableRows |-> rows]
\* The section break that opens every body: the API omits its zero startIndex.
SectionBreak ==
    [endIndex |-> 1, elements |-> <<>>, kind |-> "sectionBreak",
     startIndex |-> Undefined, tableRows |-> <<>>]

RECURSIVE Block(_, _, _, _)
\* Content laid out from native offset s on.  At depth 0 one paragraph holds all
\* the runs.  At depth d > 0 a paragraph holds the first run and a one-row,
\* two-cell table follows it: the first cell holds the rest at depth d - 1, the
\* second an empty paragraph; a paragraph follows the table.  The table, its
\* row and each cell start take one native offset each.
Block(d, runs, gap, s) ==
    IF d = 0
    THEN IF runs = <<>> THEN <<EmptyParagraph(s)>>
         ELSE <<Paragraph(ParagraphElements(runs, gap, 1, s))>>
    ELSE LET head   == IF runs = <<>> THEN EmptyParagraph(s)
                       ELSE Paragraph(<<TextRunElement(runs[1], s)>>)
             rest   == IF runs = <<>> THEN <<>> ELSE Tail(runs)
             inner  == Block(d - 1, rest, gap - 1, head.endIndex + 3)
             filler == EmptyParagraph(inner[Len(inner)].endIndex + 1)
             table  == Table(head.endIndex, filler.endIndex,
                             << <<inner, <<filler>> >> >>)
         IN  <<head, table, EmptyParagraph(table.endIndex)>>

\* The body content of a generated snapshot.
Body(d, runs, gap) == <<SectionBreak>> \o Block(d, runs, gap, 1)

\* A table of contents: a structural element that is neither a paragraph nor a
\* table; it takes one native offset and holds paragraphs of its own.
TableOfContents(s, content) ==
    [content |-> content, elements |-> <<>>,
     endIndex |-> content[Len(content)].endIndex, kind |-> "tableOfContents",
     startIndex |-> s, tableRows |-> <<>>]

\* A body that opens with a table of contents whose one entry repeats the first
\* run (an empty entry when there is no run) and that closes with an empty
\* paragraph right after the last one.
BodyWithContents(d, runs, gap) ==
    LET entry == IF runs = <<>> THEN EmptyParagraph(2)
                 ELSE Paragraph(<<TextRunElement(runs[1], 2)>>)
        toc   == TableOfContents(1, <<entry>>)
        block == Block(d, runs, gap, toc.endIndex)
    IN  <<SectionBreak, toc>> \o block \o <<EmptyParagraph(block[Len(block)].endIndex)>>

RECURSIVE Splits(_, _)
\* All ways to cut text into consecutive non-empty runs.
Splits(text, n) ==
    IF n = 0 THEN {<<>>}
    ELSE UNION {{<<Slice(text, 0, k)>> \o r : r \in Splits(Slice(text, k, n - k), n - k)}
                    : k \in 1..n}

Texts == SeqsUpTo(Alphabet, MaxTextLen)
RunLists == UNION {Splits(t, Len(t)) : t \in Texts}

\* The fixture of tests/helpers.test.js, "should find the nth instance".
TestSentence ==
    <<"T","e","s","t"," ","t","e","s","t"," ","t","e","s","t","."," ",
      "T","h","i","s"," ","i","s"," ","a"," ","t","e","s","t"," ",
      "s","e","n","t","e","n","c","e",".">>
TestWord == <<"t","e","s","t">>
TestBody == <<Paragraph(<<TextRunElement(TestSentence, 1)>>)>>
\* The bodies a tool's second fetch may see: the fixture, and the document
\* after its text was deleted.
ToolBodies == {TestBody, <<SectionBreak, EmptyParagraph(1)>>}
\* The document of the tests, and the documents the helpers are called for.
TestDocument == "doc123"
DocumentIds == {TestDocument, "docABC"}

\* ---------------------------------------------------------------- state
VARIABLES
    \* findTextRange: control point, arguments, locals and what it returned
    pc, textToFind, instance, snapshot, fullText, segments,
    startIndex, endIndex, foundCount, searchStartIndex, result, outcome,
    \* its documentId argument and the documentId of the documents.get request
    findDocumentId, requested,
    \* documents.get calls made by the current findTextRange invocation
    fetches,
    \* getParagraphRange: control point, argument, fetched body, what it returned
    \* and the documents.get calls of the current invocation
    paraPc, indexWithin, paraSnapshot, paragraphRange, paraOutcome, paraFetches,
    paraDocumentId, paraRequested,
    \* the style request builders: which builder ran last, its arguments and
    \* what it produced
    builder, styleArgs, styleRange, built,
    \* the hex colour helpers: the string last passed, validateHexColor's and
    \* hexToRgbColor's answers
    hex, hexValid, rgb,
    \* executeBatchUpdate and the tools that call it: control point, the entry
    \* point invoked, its arguments, the documents.batchUpdate calls sent by the
    \* current invocation and what the invocation ended with
    \* `caught` is the error bound by executeBatchUpdate's catch block
    \* and `toolFetches` counts the documents.get calls of the invocation
    toolPc, tool, toolArgs, batchCalls, toolFetches, caught, toolResult,
    \* server.ts: the module's client handles, and for each caller of
    \* initializeGoogleClient its control point, the authorize() invocation it
    \* awaits and what its call ended with
    authClient, googleDocs, initPc, awaited, initResult,
    \* the authorize() invocations so far, whether one of them failed, and the
    \* Docs handles installed in googleDocs, in order
    authorizeCalls, authFailed, installed

findVars == <<pc, textToFind, instance, snapshot, fullText, segments,
              startIndex, endIndex, foundCount, searchStartIndex, result,
              outcome, fetches, findDocumentId, requested>>
paraVars == <<paraPc, indexWithin, paraSnapshot, paragraphRange, paraOutcome,
              paraFetches, paraDocumentId, paraRequested>>
styleVars == <<builder, styleArgs, styleRange, built>>
colorVars == <<hex, hexValid, rgb>>
toolVars == <<toolPc, tool, toolArgs, batchCalls, toolFetches, caught, toolResult>>
initVars == <<authClient, googleDocs, initPc, awaited, initResult,
              authorizeCalls, authFailed, installed>>
vars == <<findVars, paraVars, styleVars, colorVars, toolVars, initVars>>

\* ------------------------------------------------------- findTextRange
RECURSIVE collectTextFromContent(_)
RECURSIVE collectFromRows(_)
RECURSIVE collectFromCells(_)
RECURSIVE collectFromElements(_)

\* paragraph.elements.forEach: a text run with content and both indices
\* defined is pushed as a segment.
collectFromElements(elems) ==
    IF Len(elems) = 0 THEN <<>>
    ELSE LET pe == Head(elems)
             hasText == /\ Len(pe.textRun) = 1
                        /\ Len(pe.textRun[1]) > 0
                        /\ pe.startIndex # Undefined
                        /\ pe.endIndex # Undefined
         IN  (IF hasText
              THEN <<[end |-> pe.endIndex, start |-> pe.startIndex,
                      text |-> pe.textRun[1]]>>
              ELSE <<>>) \o collectFromElements(Tail(elems))

\* row.tableCells.forEach: each cell's content is collected recursively.
collectFromCells(cells) ==
    IF Len(cells) = 0 THEN <<>>
    ELSE collectTextFromContent(Head(cells)) \o collectFromCells(Tail(cells))

\* table.tableRows.forEach
collectFromRows(rows) ==
    IF Len(rows) = 0 THEN <<>>
    ELSE collectFromCells(Head(rows)) \o collectFromRows(Tail(rows))

\* The segments in the order they are pushed; fullText grows by the same texts
\* in the same order.
collectTextFromContent(content) ==
    IF Len(content) = 0 THEN <<>>
    ELSE LET element == Head(content)
         IN  (IF element.kind = "paragraph"
              THEN collectFromElements(element.elements) ELSE <<>>)
             \o (IF element.kind = "table"
                 THEN collectFromRows(element.tableRows) ELSE <<>>)
             \o collectTextFromContent(Tail(content))

RECURSIVE JoinTexts(_)
\* fullText: the concatenation of the pushed segments' texts.
JoinTexts(segs) ==
    IF Len(segs) = 0 THEN <<>> ELSE Head(segs).text \o JoinTexts(Tail(segs))

RECURSIVE InsertByStart(_, _)
\* seg placed after every segment whose start is not greater (a stable sort).
InsertByStart(sorted, seg) ==
    IF Len(sorted) = 0 THEN <<seg>>
    ELSE IF Head(sorted).start <= seg.start
         THEN <<Head(sorted)>> \o InsertByStart(Tail(sorted), seg)
         ELSE <<seg>> \o sorted

RECURSIVE SortSegments_Descending(_)
\* Mutant of SortSegments: the comparator is b.start - a.start.
SortSegments_Descending(segs) ==
    IF Len(segs) = 0 THEN <<>>
    ELSE LET last == segs[Len(segs)]
             rest == SortSegments_Descending(SubSeq(segs, 1, Len(segs) - 1))
             k    == Cardinality({i \in 1..Len(rest) : rest[i].start >= last.start})
         IN  SubSeq(rest, 1, k) \o <<last>> \o SubSeq(rest, k + 1, Len(rest))

RECURSIVE SortSegments(_)
\* segments.sort((a, b) => a.start - b.start)
SortSegments(segs) ==
    IF Len(segs) = 0 THEN <<>>
    ELSE InsertByStart(SortSegments(SubSeq(segs, 1, Len(segs) - 1)), segs[Len(segs)])

\* Mutant of StartInSegment: the lower bound is exclusive.
StartInSegment_Exclusive(targetStart, segStart, segEnd) ==
    targetStart > segStart /\ targetStart < segEnd

\* The first test of the mapping loop: the target's start lies in the segment
\* that spans [segStart, segEnd) of fullText.
StartInSegment(targetStart, segStart, segEnd) ==
    targetStart >= segStart /\ targetStart < segEnd

\* Mutant of EndInSegment: the end is tested like the start, in [segStart, segEnd).
EndInSegment_HalfOpen(targetEnd, segStart, segEnd) ==
    targetEnd >= segStart /\ targetEnd < segEnd

\* The second test: the target's end lies in (segStart, segEnd].
EndInSegment(targetEnd, segStart, segEnd) ==
    targetEnd > segStart /\ targetEnd <= segEnd

RECURSIVE MapToSegments_SameRun(_, _, _, _, _, _, _)
\* Mutant of MapToSegments: the end is looked for only in the text run that
\* holds the start (text spanning several runs is not handled).
MapToSegments_SameRun(segs, i, pos, si, ei, targetStart, targetEnd) ==
    IF i > Len(segs) THEN [endIndex |-> ei, startIndex |-> si]
    ELSE LET seg      == segs[i]
             segStart == pos
             segEnd   == segStart + Len(seg.text)
         IN  IF StartInSegment(targetStart, segStart, segEnd)
             THEN [endIndex   |-> IF EndInSegment(targetEnd, segStart, segEnd)
                                  THEN seg.start + (targetEnd - segStart)
                                  ELSE ei,
                   startIndex |-> seg.start + (targetStart - segStart)]
             ELSE MapToSegments_SameRun(segs, i + 1, segEnd, si, ei, targetStart, targetEnd)

RECURSIVE MapToSegments(_, _, _, _, _, _, _)
\* `for (const seg of segments)` from segment i on, with currentPosInFullText =
\* pos and the indices mapped so far: the pair of indices the loop ends with.
MapToSegments(segs, i, pos, si, ei, targetStart, targetEnd) ==
    IF i > Len(segs) THEN [endIndex |-> ei, startIndex |-> si]
    ELSE LET seg      == segs[i]
             segStart == pos
             segEnd   == segStart + Len(seg.text)
             si2      == IF si = NotMapped /\ StartInSegment(targetStart, segStart, segEnd)
                         THEN seg.start + (targetStart - segStart)
                         ELSE si
         IN  IF EndInSegment(targetEnd, segStart, segEnd)
             THEN [endIndex   |-> seg.start + (targetEnd - segStart),
                   startIndex |-> si2]
             ELSE MapToSegments(segs, i + 1, segEnd, si2, ei, targetStart, targetEnd)

\* Search strings the callers pass (the empty string included).
SearchStrings == SeqsUpTo(Alphabet, MaxTextLen) \cup {TestWord}

\* error.code of a failed documents.get: 404, 403, anything else.
ErrorCodes == {404, 403, 500}

InitFind ==
    /\ pc = "idle"
    /\ textToFind = <<>>
    /\ instance = 1
    /\ snapshot = Null
    /\ fullText = <<>>
    /\ segments = <<>>
    /\ startIndex = NotMapped
    /\ endIndex = NotMapped
    /\ foundCount = 0
    /\ searchStartIndex = 0
    /\ result = Null
    /\ outcome = "none"
    /\ fetches = 0
    /\ findDocumentId = Null
    /\ requested = Null

\* findTextRange(docs, documentId, text, n) is entered and awaits documents.get.
FindTextRangeCall(id, text, n) ==
    /\ UNCHANGED <<paraVars, styleVars, colorVars, toolVars, initVars>>
    /\ pc = "idle"
    /\ pc' = "fetching"
    /\ findDocumentId' = Some(id)
    /\ requested' = Some([documentId |-> id])
    /\ textToFind' = text
    /\ instance' = n
    /\ UNCHANGED <<snapshot, fullText, segments, startIndex, endIndex,
                   foundCount, searchStartIndex, result, outcome, fetches>>

\* documents.get resolves with a body: the text is collected, the segments are
\* sorted and the occurrence loop's variables are initialised.
FetchReturnsContent(content) ==
    /\ UNCHANGED <<paraVars, styleVars, colorVars, toolVars, initVars>>
    /\ pc = "fetching"
    /\ fetches' = fetches + 1
    /\ snapshot' = Some(content)
    /\ fullText' = JoinTexts(collectTextFromContent(content))
    /\ segments' = SortSegments(collectTextFromContent(content))
    /\ startIndex' = NotMapped
    /\ endIndex' = NotMapped
    /\ foundCount' = 0
    /\ searchStartIndex' = 0
    /\ pc' = "loop"
    /\ UNCHANGED <<findDocumentId, requested>>
    /\ UNCHANGED <<textToFind, instance, result, outcome>>

\* documents.get resolves without body.content: null is returned.
FetchReturnsNoContent ==
    /\ UNCHANGED <<paraVars, styleVars, colorVars, toolVars, initVars>>
    /\ pc = "fetching"
    /\ fetches' = fetches + 1
    /\ result' = Null
    /\ outcome' = "returned"
    /\ pc' = "done"
    /\ UNCHANGED <<findDocumentId, requested>>
    /\ UNCHANGED <<textToFind, instance, snapshot, fullText, segments,
                   startIndex, endIndex, foundCount, searchStartIndex>>

\* documents.get rejects: the catch block rethrows, 404 and 403 as UserError.
FetchFails(code) ==
    /\ UNCHANGED <<paraVars, styleVars, colorVars, toolVars, initVars>>
    /\ pc = "fetching"
    /\ fetches' = fetches + 1
    /\ outcome' = IF code = 404 \/ code = 403 THEN "UserError" ELSE "Error"
    /\ pc' = "done"
    /\ UNCHANGED <<findDocumentId, requested>>
    /\ UNCHANGED <<textToFind, instance, snapshot, fullText, segments,
                   startIndex, endIndex, foundCount, searchStartIndex, result>>

\* Mutant of ResumeAt: the search resumes past the whole match.
ResumeAt_PastMatch(currentIndex, text) == currentIndex + Len(text)

\* `searchStartIndex = currentIndex + 1`
ResumeAt(currentIndex, text) == currentIndex + 1

\* One evaluation of `while (foundCount < instance)` and of its body.
LoopIteration ==
    /\ UNCHANGED <<paraVars, styleVars, colorVars, toolVars, initVars>>
    /\ pc = "loop"
    /\ LET currentIndex == indexOf(fullText, textToFind, searchStartIndex)
           mapped == MapToSegments(segments, 1, 0, startIndex, endIndex,
                                   currentIndex, currentIndex + Len(textToFind))
       IN  IF ~(foundCount < instance) \/ currentIndex = NotMapped
           THEN \* the loop ends: `return null`
                /\ result' = Null
                /\ outcome' = "returned"
                /\ pc' = "done"
                /\ UNCHANGED <<startIndex, endIndex, foundCount, searchStartIndex>>
           ELSE IF foundCount + 1 # instance
           THEN \* an earlier occurrence: search on from currentIndex + 1
                /\ foundCount' = foundCount + 1
                /\ searchStartIndex' = ResumeAt(currentIndex, textToFind)
                /\ UNCHANGED <<startIndex, endIndex, result, outcome, pc>>
           ELSE IF mapped.startIndex = NotMapped \/ mapped.endIndex = NotMapped
           THEN \* mapping failed: reset and try the next occurrence
                /\ startIndex' = NotMapped
                /\ endIndex' = NotMapped
                /\ searchStartIndex' = ResumeAt(currentIndex, textToFind)
                /\ foundCount' = foundCount
                /\ UNCHANGED <<result, outcome, pc>>
           ELSE \* `return { startIndex, endIndex }`
                /\ startIndex' = mapped.startIndex
                /\ endIndex' = mapped.endIndex
                /\ foundCount' = foundCount + 1
                /\ result' = Some(mapped)
                /\ outcome' = "returned"
                /\ pc' = "done"
                /\ UNCHANGED searchStartIndex
    /\ UNCHANGED <<findDocumentId, requested>>
    /\ UNCHANGED <<textToFind, instance, snapshot, fullText, segments, fetches>>

\* Mutant of FindTextRangeReturn: what the invocation fetched and computed
\* stays behind for the next one.
FindTextRangeReturn_KeepsLocals ==
    /\ UNCHANGED <<paraVars, styleVars, colorVars, toolVars, initVars>>
    /\ pc = "done"
    /\ pc' = "idle"
    /\ UNCHANGED <<textToFind, instance, snapshot, fullText, segments, startIndex,
                   endIndex, foundCount, searchStartIndex, result, outcome, fetches,
                   findDocumentId, requested>>

\* findTextRange's invocation is over: its arguments and locals are gone.
FindLocalsGone ==
    /\ pc' = "idle"
    /\ textToFind' = <<>>
    /\ instance' = 1
    /\ snapshot' = Null
    /\ fullText' = <<>>
    /\ segments' = <<>>
    /\ startIndex' = NotMapped
    /\ endIndex' = NotMapped
    /\ foundCount' = 0
    /\ searchStartIndex' = 0
    /\ result' = Null
    /\ outcome' = "none"
    /\ fetches' = 0
    /\ findDocumentId' = Null
    /\ requested' = Null

\* The caller has the result; the invocation's locals are gone.
FindTextRangeReturn ==
    /\ UNCHANGED <<paraVars, styleVars, colorVars, toolVars, initVars>>
    /\ pc = "done"
    /\ FindLocalsGone

\* ------------------------------------------------ the snapshot, read directly
\* What the claims about findTextRange are measured against: the text runs of
\* the fetched snapshot, taken from the tree without the code's collector.
RECURSIVE TextRunsOf(_)
TextRunsOf(content) ==
    UNION {IF el.kind = "paragraph"
           THEN {[end |-> pe.endIndex, start |-> pe.startIndex, text |-> pe.textRun[1]]
                    : pe \in {el.elements[k] : k \in
                                 {j \in 1..Len(el.elements) : Len(el.elements[j].textRun) = 1}}}
           ELSE IF el.kind = "table"
           THEN UNION {UNION {TextRunsOf(row[c]) : c \in 1..Len(row)}
                          : row \in {el.tableRows[r] : r \in 1..Len(el.tableRows)}}
           ELSE {}
              : el \in {content[k] : k \in 1..Len(content)}}

RECURSIVE InNativeOrder(_)
\* The fragments as a sequence ordered by native start.
InNativeOrder(runs) ==
    IF runs = {} THEN <<>>
    ELSE LET first == CHOOSE r \in runs : \A q \in runs : r.start <= q.start
         IN  <<first>> \o InNativeOrder(runs \ {first})

Fragments == IF snapshot = Null THEN <<>> ELSE InNativeOrder(TextRunsOf(snapshot[1]))

RECURSIVE TextOf(_)
TextOf(frags) == IF Len(frags) = 0 THEN <<>> ELSE Head(frags).text \o TextOf(Tail(frags))

\* The logical string: the fragments' texts in native order.
LogicalString == TextOf(Fragments)

\* Logical position of fragment i's first character.
LogicalStart(i) == Len(TextOf(SubSeq(Fragments, 1, i - 1)))

\* The positions at which s occurs in the logical string.
Positions(s) == {p \in 0..Len(LogicalString) : Len(s) > 0 /\ OccursAt(LogicalString, s, p)}

\* The n-th smallest position (n in 1..Cardinality(Positions(s))).
NthPosition(s, n) ==
    CHOOSE p \in Positions(s) : Cardinality({q \in Positions(s) : q < p}) = n - 1

\* No gaps: every fragment but the first starts where its predecessor ends, and
\* each fragment is as long as its text.
Contiguous ==
    /\ \A i \in 1..Len(Fragments) :
          Fragments[i].end - Fragments[i].start = Len(Fragments[i].text)
    /\ \A i \in 2..Len(Fragments) : Fragments[i].start = Fragments[i - 1].end

\* The document's character at native offset k (<<>> where no text run covers k).
CharAt(k) ==
    LET at == {i \in 1..Len(Fragments) : Fragments[i].start <= k /\ k < Fragments[i].end}
    IN  IF at = {} THEN <<>>
        ELSE LET i == CHOOSE j \in at : TRUE
             IN  <<Fragments[i].text[k - Fragments[i].start + 1]>>

\* The document text at native offsets [from, to).
NativeText(from, to) == [k \in 1..(to - from) |-> CharAt(from + k - 1)]

\* findTextRange has returned (a range or null) from a fetched body.
Searched == pc = "done" /\ outcome = "returned" /\ snapshot # Null

\* The fragment that holds logical position p.
FragmentAt(p) ==
    CHOOSE i \in 1..Len(Fragments) :
        LogicalStart(i) <= p /\ p < LogicalStart(i) + Len(Fragments[i].text)

\* ----------------------------------------------------------------- claims
\* C1: on a snapshot whose fragments are contiguous, for a non-empty search
\* string and n up to the number of its occurrences in the logical string,
\* findTextRange returns a range whose document text is the search string; the
\* 3rd 'test' of the test fixture is {27, 31}.
C1_RangeTextIsSearchString ==
    /\ (Searched /\ Contiguous /\ Len(textToFind) > 0
          /\ instance <= Cardinality(Positions(textToFind)))
       => /\ result # Null
          /\ NativeText(result[1].startIndex, result[1].endIndex)
                = [k \in 1..Len(textToFind) |-> <<textToFind[k]>>]
    /\ (Searched /\ snapshot = Some(TestBody) /\ textToFind = TestWord /\ instance = 3)
       => result = Some([endIndex |-> 31, startIndex |-> 27])

\* C1 witness: the last of several occurrences is returned from a contiguous
\* snapshot of more than one fragment.
C1_Witness ==
    /\ Searched /\ Contiguous /\ Len(Fragments) > 1 /\ Len(textToFind) > 1
    /\ instance > 1 /\ instance = Cardinality(Positions(textToFind))
    /\ result # Null

\* C2: with fewer than N occurrences of a non-empty search string in the
\* logical string, findTextRange returns null.
C2_TooFewOccurrencesIsNull ==
    (Searched /\ Len(textToFind) > 0 /\ Cardinality(Positions(textToFind)) < instance)
       => result = Null

\* C2 witness: the string occurs, but fewer than N times, and null is returned.
C2_Witness ==
    /\ Searched /\ Len(textToFind) > 0
    /\ Cardinality(Positions(textToFind)) = instance - 1 /\ instance > 1
    /\ result = Null

\* Occurrence n of the search string starts in one fragment and ends in a later
\* one, each fragment on the way starting where the one before ends.
SpansAdjacentFragments ==
    /\ Searched /\ Len(textToFind) > 0
    /\ instance <= Cardinality(Positions(textToFind))
    /\ LET p == NthPosition(textToFind, instance)
           i == FragmentAt(p)
           j == FragmentAt(p + Len(textToFind) - 1)
       IN  /\ i < j
           /\ \A k \in (i + 1)..j : Fragments[k].start = Fragments[k - 1].end

\* C3: an occurrence that starts in one fragment and ends in a later, natively
\* adjacent one is returned as one range, from its first character's native
\* offset, whose length is the search string's.
C3_SpanningOccurrenceIsOneRange ==
    SpansAdjacentFragments
       => LET p == NthPosition(textToFind, instance)
              i == FragmentAt(p)
          IN  /\ result # Null
              /\ result[1].startIndex = Fragments[i].start + (p - LogicalStart(i))
              /\ result[1].endIndex - result[1].startIndex = Len(textToFind)

\* C3 witness: such an occurrence, in a snapshot that has a gap elsewhere.
C3_Witness ==
    /\ SpansAdjacentFragments
    /\ ~Contiguous
    /\ result # Null
    /\ result[1].endIndex - result[1].startIndex = Len(textToFind)

\* C4: a range returned for a non-empty search string has endIndex > startIndex.
C4_RangeIsNonEmpty ==
    (Searched /\ Len(textToFind) > 0 /\ result # Null)
       => result[1].endIndex > result[1].startIndex

\* C4 witness: a range is returned for an occurrence that crosses a gap.
C4_Witness ==
    /\ Searched /\ Len(textToFind) > 0 /\ result # Null
    /\ ~Contiguous
    /\ result[1].endIndex - result[1].startIndex > Len(textToFind)

\* --------------------------------------------------- getParagraphRange
RECURSIVE findParagraphInContent_OneLevel(_, _)
\* Mutant of findParagraphInContent: the cells of a table are scanned for
\* paragraphs, but a table inside a cell is not entered.
findParagraphInContent_OneLevel(content, index) ==
    IF Len(content) = 0 THEN Null
    ELSE LET element == Head(content)
             within  == /\ element.startIndex # Undefined
                        /\ element.endIndex # Undefined
                        /\ index >= element.startIndex
                        /\ index < element.endIndex
             inCells == {el \in UNION {UNION {{cell[k] : k \in 1..Len(cell)}
                                                 : cell \in {row[c] : c \in 1..Len(row)}}
                                          : row \in {element.tableRows[r]
                                                        : r \in 1..Len(element.tableRows)}} :
                            /\ el.kind = "paragraph"
                            /\ index >= el.startIndex /\ index < el.endIndex}
             found   == IF ~within THEN Null
                        ELSE IF element.kind = "paragraph"
                        THEN Some([endIndex   |-> element.endIndex,
                                   startIndex |-> element.startIndex])
                        ELSE IF element.kind = "table" /\ inCells # {}
                        THEN LET el == CHOOSE x \in inCells : TRUE
                             IN  Some([endIndex   |-> el.endIndex,
                                       startIndex |-> el.startIndex])
                        ELSE Null
         IN  IF found # Null THEN found
             ELSE findParagraphInContent_OneLevel(Tail(content), index)

RECURSIVE findParagraphInContent_ClosedEnd(_, _)
\* Mutant of findParagraphInContent: an element's range includes its endIndex.
findParagraphInContent_ClosedEnd(content, index) ==
    IF Len(content) = 0 THEN Null
    ELSE LET element == Head(content)
             within  == /\ element.startIndex # Undefined
                        /\ element.endIndex # Undefined
                        /\ index >= element.startIndex
                        /\ index <= element.endIndex
             found   == IF ~within THEN Null
                        ELSE IF element.kind = "paragraph"
                        THEN Some([endIndex   |-> element.endIndex,
                                   startIndex |-> element.startIndex])
                        ELSE IF element.kind = "table"
                        THEN findParagraphInContent_OneLevel(<<element>>, index)
                        ELSE Null
         IN  IF found # Null THEN found
             ELSE findParagraphInContent_ClosedEnd(Tail(content), index)

RECURSIVE findParagraphInContent_AnyContent(_, _)
\* Mutant of findParagraphInContent: the content of an element that is neither
\* a paragraph nor a table is scanned for paragraphs as well.
findParagraphInContent_AnyContent(content, index) ==
    IF Len(content) = 0 THEN Null
    ELSE LET element == Head(content)
             within  == /\ element.startIndex # Undefined
                        /\ element.endIndex # Undefined
                        /\ index >= element.startIndex
                        /\ index < element.endIndex
             found   == IF ~within THEN Null
                        ELSE IF element.kind = "paragraph"
                        THEN Some([endIndex   |-> element.endIndex,
                                   startIndex |-> element.startIndex])
                        ELSE IF element.kind = "table"
                        THEN findParagraphInContent_OneLevel(<<element>>, index)
                        ELSE findParagraphInContent_AnyContent(element.content, index)
         IN  IF found # Null THEN found
             ELSE findParagraphInContent_AnyContent(Tail(content), index)

RECURSIVE findParagraphInContent(_, _)
RECURSIVE findParagraphInRows(_, _)
RECURSIVE findParagraphInCells(_, _)

\* `for (const cell of row.tableCells)`: the first cell whose content yields a
\* paragraph decides.
findParagraphInCells(cells, index) ==
    IF Len(cells) = 0 THEN Null
    ELSE LET r == findParagraphInContent(Head(cells), index)
         IN  IF r # Null THEN r ELSE findParagraphInCells(Tail(cells), index)

\* `for (const row of element.table.tableRows)`
findParagraphInRows(rows, index) ==
    IF Len(rows) = 0 THEN Null
    ELSE LET r == findParagraphInCells(Head(rows), index)
         IN  IF r # Null THEN r ELSE findParagraphInRows(Tail(rows), index)

\* `for (const element of content)`: an element with both indices defined whose
\* range holds the index is returned when it is a paragraph and searched cell
\* by cell when it is a table; otherwise the loop goes on to the next element.
findParagraphInContent(content, index) ==
    IF Len(content) = 0 THEN Null
    ELSE LET element == Head(content)
             within  == /\ element.startIndex # Undefined
                        /\ element.endIndex # Undefined
                        /\ index >= element.startIndex
                        /\ index < element.endIndex
             found   == IF ~within THEN Null
                        ELSE IF element.kind = "paragraph"
                        THEN Some([endIndex   |-> element.endIndex,
                                   startIndex |-> element.startIndex])
                        ELSE IF element.kind = "table"
                        THEN findParagraphInRows(element.tableRows, index)
                        ELSE Null
         IN  IF found # Null THEN found
             ELSE findParagraphInContent(Tail(content), index)

\* Offsets the callers ask about: every offset of a generated body and one past.
MaxOffset == MaxTextLen + 6 * MaxDepth + 3

InitParagraph ==
    /\ paraPc = "idle"
    /\ indexWithin = 0
    /\ paraSnapshot = Null
    /\ paragraphRange = Null
    /\ paraOutcome = "none"
    /\ paraFetches = 0
    /\ paraDocumentId = Null
    /\ paraRequested = Null

\* getParagraphRange(docs, documentId, index) is entered and awaits documents.get.
EnterGetParagraphRange(id, index) ==
    /\ paraPc = "idle"
    /\ paraPc' = "fetching"
    /\ paraDocumentId' = Some(id)
    /\ paraRequested' = Some([documentId |-> id])
    /\ indexWithin' = index
    /\ UNCHANGED <<paraSnapshot, paragraphRange, paraOutcome, paraFetches>>

\* getParagraphRange is called on its own.
GetParagraphRangeCall(id, index) ==
    /\ EnterGetParagraphRange(id, index)
    /\ UNCHANGED <<findVars, styleVars, colorVars, toolVars, initVars>>

\* documents.get resolves with a body: the content is searched and the range
\* found (or null) is returned.
ParagraphFetchReturnsContent(content) ==
    /\ paraPc = "fetching"
    /\ paraFetches' = paraFetches + 1
    /\ paraSnapshot' = Some(content)
    /\ paragraphRange' = findParagraphInContent(content, indexWithin)
    /\ paraOutcome' = "returned"
    /\ paraPc' = "done"
    /\ UNCHANGED <<indexWithin, paraDocumentId, paraRequested>>
    /\ UNCHANGED <<findVars, styleVars, colorVars, toolVars, initVars>>

\* documents.get resolves without body.content: null is returned.
ParagraphFetchReturnsNoContent ==
    /\ paraPc = "fetching"
    /\ paraFetches' = paraFetches + 1
    /\ paragraphRange' = Null
    /\ paraOutcome' = "returned"
    /\ paraPc' = "done"
    /\ UNCHANGED <<indexWithin, paraSnapshot, paraDocumentId, paraRequested>>
    /\ UNCHANGED <<findVars, styleVars, colorVars, toolVars, initVars>>

\* documents.get rejects: the catch block rethrows, 404 and 403 as UserError.
ParagraphFetchFails(code) ==
    /\ paraPc = "fetching"
    /\ paraFetches' = paraFetches + 1
    /\ paraOutcome' = IF code = 404 \/ code = 403 THEN "UserError" ELSE "Error"
    /\ paraPc' = "done"
    /\ UNCHANGED <<indexWithin, paraSnapshot, paragraphRange, paraDocumentId, paraRequested>>
    /\ UNCHANGED <<findVars, styleVars, colorVars, toolVars, initVars>>

\* getParagraphRange's invocation is over: its arguments and locals are gone.
ParagraphLocalsGone ==
    /\ paraPc' = "idle"
    /\ indexWithin' = 0
    /\ paraSnapshot' = Null
    /\ paragraphRange' = Null
    /\ paraOutcome' = "none"
    /\ paraFetches' = 0
    /\ paraDocumentId' = Null
    /\ paraRequested' = Null

\* The caller has the result; the invocation's locals are gone.
GetParagraphRangeReturn ==
    /\ paraPc = "done"
    /\ ParagraphLocalsGone
    /\ UNCHANGED <<findVars, styleVars, colorVars, toolVars, initVars>>

\* The paragraphs and the tables of a content list, read from the tree, each
\* with the number of tables that enclose it.
RECURSIVE ParagraphsOf(_, _)
ParagraphsOf(content, depth) ==
    UNION {IF el.kind = "paragraph"
           THEN {[depth |-> depth, endIndex |-> el.endIndex, startIndex |-> el.startIndex]}
           ELSE IF el.kind = "table"
           THEN UNION {UNION {ParagraphsOf(row[c], depth + 1) : c \in 1..Len(row)}
                          : row \in {el.tableRows[r] : r \in 1..Len(el.tableRows)}}
           ELSE {}
              : el \in {content[k] : k \in 1..Len(content)}}

RECURSIVE TablesOf(_)
TablesOf(content) ==
    UNION {IF el.kind = "table"
           THEN {[endIndex |-> el.endIndex, startIndex |-> el.startIndex]}
                \cup UNION {UNION {TablesOf(row[c]) : c \in 1..Len(row)}
                               : row \in {el.tableRows[r] : r \in 1..Len(el.tableRows)}}
           ELSE {}
              : el \in {content[k] : k \in 1..Len(content)}}

\* getParagraphRange has returned (a range or null) from a fetched body.
Resolved == paraPc = "done" /\ paraOutcome = "returned" /\ paraSnapshot # Null

\* The paragraphs inside table cells whose range holds the queried offset.
CellParagraphsAtIndex ==
    {p \in ParagraphsOf(paraSnapshot[1], 0) :
        p.depth >= 1 /\ p.startIndex <= indexWithin /\ indexWithin < p.endIndex}

\* C5: for an offset inside a paragraph of a table cell, at any nesting depth,
\* getParagraphRange returns that paragraph's range; it never returns the range
\* of a table.
C5_CellParagraphResolved ==
    Resolved =>
       /\ \A p \in CellParagraphsAtIndex :
             paragraphRange = Some([endIndex |-> p.endIndex, startIndex |-> p.startIndex])
       /\ \A t \in TablesOf(paraSnapshot[1]) : paragraphRange # Some(t)

\* C5 witness: the paragraph found lies in a table nested in a cell of a table.
C5_Witness ==
    /\ Resolved
    /\ \E p \in CellParagraphsAtIndex :
          /\ p.depth >= 2
          /\ paragraphRange = Some([endIndex |-> p.endIndex, startIndex |-> p.startIndex])

\* ------------------------------------------------- hex colours (types.ts)
UpperHexDigits == <<"0","1","2","3","4","5","6","7","8","9","A","B","C","D","E","F">>
LowerHexDigits == <<"0","1","2","3","4","5","6","7","8","9","a","b","c","d","e","f">>

\* [0-9A-Fa-f]
IsHexDigit(c) == \E v \in 1..16 : UpperHexDigits[v] = c \/ LowerHexDigits[v] = c

\* The value of a hexadecimal digit.
HexDigitValue(c) ==
    (CHOOSE v \in 1..16 : UpperHexDigits[v] = c \/ LowerHexDigits[v] = c) - 1

\* How many of the characters of s, from position i (1-based) on, are
\* hexadecimal digits in a row.
RECURSIVE HexDigitsFrom(_, _)
HexDigitsFrom(s, i) ==
    IF i > Len(s) \/ ~IsHexDigit(s[i]) THEN 0 ELSE 1 + HexDigitsFrom(s, i + 1)

\* Mutant of validateHexColor: six digits or more, /^#?([..]{3}|[..]{6,})$/.
validateHexColor_SixOrMore(color) ==
    LET first  == IF Len(color) > 0 /\ color[1] = "#" THEN 2 ELSE 1
        digits == HexDigitsFrom(color, first)
    IN  /\ digits = 3 \/ digits >= 6
        /\ first + digits = Len(color) + 1

\* /^#?([0-9A-Fa-f]{3}|[0-9A-Fa-f]{6})$/.test(color): an optional '#', then
\* three or six hexadecimal digits, then the end of the string.
validateHexColor(color) ==
    LET first  == IF Len(color) > 0 /\ color[1] = "#" THEN 2 ELSE 1
        digits == HexDigitsFrom(color, first)
    IN  /\ digits = 3 \/ digits = 6
        /\ first + digits = Len(color) + 1

\* The colour without its leading '#'.
StripHash(color) ==
    IF Len(color) > 0 /\ color[1] = "#" THEN Tail(color) ELSE color

\* Mutant of ExpandShorthand: the three digits are repeated as a group.
ExpandShorthand_Repeated(digits) ==
    IF Len(digits) = 3 THEN digits \o digits ELSE digits

\* A 3-digit shorthand becomes 6 digits, each digit duplicated.
ExpandShorthand(digits) ==
    IF Len(digits) = 3
    THEN <<digits[1], digits[1], digits[2], digits[2], digits[3], digits[3]>>
    ELSE digits

RECURSIVE Gcd(_, _)
Gcd(a, b) == IF b = 0 THEN a ELSE Gcd(b, a % b)

\* The number n / d, as a fraction in lowest terms.
Fraction(n, d) == [den |-> d \div Gcd(n, d), num |-> n \div Gcd(n, d)]

\* A channel: its two-digit hexadecimal value divided by 255.
Channel(high, low) == Fraction(16 * HexDigitValue(high) + HexDigitValue(low), 255)

\* hexToRgbColor(hex): null for a string that is no hex colour, else the three
\* channels of the (expanded) colour.
hexToRgbColor(color) ==
    IF ~validateHexColor(color) THEN Null
    ELSE LET d == ExpandShorthand(StripHash(color))
         IN  Some([blue  |-> Channel(d[5], d[6]),
                   green |-> Channel(d[3], d[4]),
                   red   |-> Channel(d[1], d[2])])

\* Longest generated colour string.
MaxHexLen == 7
HexChars == {"#", "0", "F", "G"}
\* The strings of tests/types.test.js, and a lower-case colour.
TestColors ==
    {<<"#","F","F","0","0","0","0">>, <<"#","F","0","0">>, <<"#","0","0","F","F","0","0">>,
     <<"#","0","F","0">>, <<"F","F","0","0","0","0">>, <<"F","0","0">>,
     <<"0","0","F","F","0","0">>, <<"0","F","0">>, <<>>, <<"#","X","Y","Z">>,
     <<"#","1","2","3","4","5">>, <<"#","1","2","3","4","5","6","7">>,
     <<"i","n","v","a","l","i","d">>, <<"#","1","2">>, <<"#","0","0","0","0","F","F">>,
     <<"#","8","0","0","0","8","0">>, <<"#","F","F","F">>, <<"#","f","a","0">>,
     <<"8","0","0","0","8","0">>, <<"#","8","0","8">>, <<"a","b","c","d","e","f">>}
ColorStrings == SeqsUpTo(HexChars, MaxHexLen) \cup TestColors

InitColor ==
    /\ hex = Null
    /\ hexValid = FALSE
    /\ rgb = Null

\* validateHexColor and hexToRgbColor are applied to a string.
ConvertColor(color) ==
    /\ hex = Null
    /\ hex' = Some(color)
    /\ hexValid' = validateHexColor(color)
    /\ rgb' = hexToRgbColor(color)
    /\ UNCHANGED <<findVars, paraVars, styleVars, toolVars, initVars>>

\* The answers have been used.
ColorReturn ==
    /\ hex # Null
    /\ hex' = Null
    /\ hexValid' = FALSE
    /\ rgb' = Null
    /\ UNCHANGED <<findVars, paraVars, styleVars, toolVars, initVars>>

\* ------------------------------------------------- style request builders
\* What a builder has so far: the style payload as its (key, value) pairs in the
\* order they are assigned, and fieldsToUpdate.
NoFields == [fieldsToUpdate |-> <<>>, style |-> <<>>]

\* Mutant of SetField: the link is written into the payload but its field is
\* not pushed.
SetField_LinkNotPushed(acc, key, value, field) ==
    [fieldsToUpdate |-> IF field = "link" THEN acc.fieldsToUpdate
                        ELSE Append(acc.fieldsToUpdate, field),
     style          |-> Append(acc.style, [key |-> key, value |-> value])]

\* `style.key = value; fieldsToUpdate.push(field);`
SetField(acc, key, value, field) ==
    [fieldsToUpdate |-> Append(acc.fieldsToUpdate, field),
     style          |-> Append(acc.style, [key |-> key, value |-> value])]

RECURSIVE JoinComma(_)
\* fieldsToUpdate.join(',')
JoinComma(fields) ==
    IF Len(fields) = 0 THEN <<>>
    ELSE IF Len(fields) = 1 THEN <<fields[1]>>
    ELSE <<fields[1], ",">> \o JoinComma(Tail(fields))

\* What a builder call ends with.
ReturnsNull == [fields |-> <<>>, outcome |-> "null", request |-> Null]
Throws(what) == [fields |-> <<>>, outcome |-> what, request |-> Null]
ReturnsRequest(type, rangeStart, rangeEnd, acc) ==
    [fields  |-> acc.fieldsToUpdate,
     outcome |-> "request",
     request |-> Some([fields |-> JoinComma(acc.fieldsToUpdate),
                       range  |-> [endIndex |-> rangeEnd, startIndex |-> rangeStart],
                       style  |-> acc.style,
                       type   |-> type])]

\* The option-by-option part of buildUpdateTextStyleRequest up to, and without,
\* the colours.
TextStyleFieldsBeforeColors(style) ==
    LET a1 == IF style.bold # Null
              THEN SetField(NoFields, "bold", style.bold[1], "bold") ELSE NoFields
        a2 == IF style.italic # Null
              THEN SetField(a1, "italic", style.italic[1], "italic") ELSE a1
        a3 == IF style.underline # Null
              THEN SetField(a2, "underline", style.underline[1], "underline") ELSE a2
        a4 == IF style.strikethrough # Null
              THEN SetField(a3, "strikethrough", style.strikethrough[1], "strikethrough")
              ELSE a3
        a5 == IF style.fontSize # Null
              THEN SetField(a4, "fontSize",
                            [magnitude |-> style.fontSize[1], unit |-> "PT"], "fontSize")
              ELSE a4
    IN  IF style.fontFamily # Null
        THEN SetField(a5, "weightedFontFamily",
                      [fontFamily |-> style.fontFamily[1]], "weightedFontFamily")
        ELSE a5

\* Mutant of buildUpdateTextStyleRequest: a background colour that is no hex
\* colour is left out instead of rejected.
buildUpdateTextStyleRequest_BackgroundIgnored(rangeStart, rangeEnd, style) ==
    LET fg == IF style.foregroundColor # Null
              THEN hexToRgbColor(style.foregroundColor[1]) ELSE Null
        bg == IF style.backgroundColor # Null
              THEN hexToRgbColor(style.backgroundColor[1]) ELSE Null
        a6 == TextStyleFieldsBeforeColors(style)
        a7 == IF style.foregroundColor # Null
              THEN SetField(a6, "foregroundColor",
                            [color |-> [rgbColor |-> fg[1]]], "foregroundColor")
              ELSE a6
        a8 == IF bg # Null
              THEN SetField(a7, "backgroundColor",
                            [color |-> [rgbColor |-> bg[1]]], "backgroundColor")
              ELSE a7
        a9 == IF style.linkUrl # Null
              THEN SetField(a8, "link", [url |-> style.linkUrl[1]], "link") ELSE a8
    IN  IF style.foregroundColor # Null /\ fg = Null THEN Throws("UserError")
        ELSE IF Len(a9.fieldsToUpdate) = 0 THEN ReturnsNull
        ELSE ReturnsRequest("updateTextStyle", rangeStart, rangeEnd, a9)

\* buildUpdateTextStyleRequest(startIndex, endIndex, style)
buildUpdateTextStyleRequest(rangeStart, rangeEnd, style) ==
    LET fg == IF style.foregroundColor # Null
              THEN hexToRgbColor(style.foregroundColor[1]) ELSE Null
        bg == IF style.backgroundColor # Null
              THEN hexToRgbColor(style.backgroundColor[1]) ELSE Null
        a6 == TextStyleFieldsBeforeColors(style)
        a7 == IF style.foregroundColor # Null
              THEN SetField(a6, "foregroundColor",
                            [color |-> [rgbColor |-> fg[1]]], "foregroundColor")
              ELSE a6
        a8 == IF style.backgroundColor # Null
              THEN SetField(a7, "backgroundColor",
                            [color |-> [rgbColor |-> bg[1]]], "backgroundColor")
              ELSE a7
        a9 == IF style.linkUrl # Null
              THEN SetField(a8, "link", [url |-> style.linkUrl[1]], "link") ELSE a8
    IN  IF style.foregroundColor # Null /\ fg = Null THEN Throws("UserError")
        ELSE IF style.backgroundColor # Null /\ bg = Null THEN Throws("UserError")
        ELSE IF Len(a9.fieldsToUpdate) = 0 THEN ReturnsNull
        ELSE ReturnsRequest("updateTextStyle", rangeStart, rangeEnd, a9)

\* The option-by-option part of buildUpdateParagraphStyleRequest.
ParagraphStyleFields(style) ==
    LET a1 == IF style.alignment # Null
              THEN SetField(NoFields, "alignment", style.alignment[1], "alignment")
              ELSE NoFields
        a2 == IF style.indentStart # Null
              THEN SetField(a1, "indentStart",
                            [magnitude |-> style.indentStart[1], unit |-> "PT"], "indentStart")
              ELSE a1
        a3 == IF style.indentEnd # Null
              THEN SetField(a2, "indentEnd",
                            [magnitude |-> style.indentEnd[1], unit |-> "PT"], "indentEnd")
              ELSE a2
        a4 == IF style.spaceAbove # Null
              THEN SetField(a3, "spaceAbove",
                            [magnitude |-> style.spaceAbove[1], unit |-> "PT"], "spaceAbove")
              ELSE a3
        a5 == IF style.spaceBelow # Null
              THEN SetField(a4, "spaceBelow",
                            [magnitude |-> style.spaceBelow[1], unit |-> "PT"], "spaceBelow")
              ELSE a4
        a6 == IF style.namedStyleType # Null
              THEN SetField(a5, "namedStyleType", style.namedStyleType[1], "namedStyleType")
              ELSE a5
    IN  IF style.keepWithNext # Null
        THEN SetField(a6, "keepWithNext", style.keepWithNext[1], "keepWithNext")
        ELSE a6

\* Mutant of buildUpdateParagraphStyleRequest: the empty-mask check is missing.
buildUpdateParagraphStyleRequest_NoCheck(rangeStart, rangeEnd, style) ==
    ReturnsRequest("updateParagraphStyle", rangeStart, rangeEnd, ParagraphStyleFields(style))

\* buildUpdateParagraphStyleRequest(startIndex, endIndex, style)
buildUpdateParagraphStyleRequest(rangeStart, rangeEnd, style) ==
    LET acc == ParagraphStyleFields(style)
    IN  IF Len(acc.fieldsToUpdate) = 0 THEN ReturnsNull
        ELSE ReturnsRequest("updateParagraphStyle", rangeStart, rangeEnd, acc)

\* An optional argument: absent, or one of the values.
Optional(values) == {Null} \cup {Some(v) : v \in values}

\* Colour strings passed as style options: two hex colours and two that are not.
StyleColors ==
    {<<"#","F","0","0">>, <<"8","0","0","0","8","0">>, <<"b","a","d">>, <<"#","F","0">>}

TextStyleArgs ==
    [backgroundColor : Optional(StyleColors), bold : Optional(BOOLEAN),
     fontFamily : Optional({"Arial"}), fontSize : Optional({12}),
     foregroundColor : Optional(StyleColors), italic : Optional({TRUE}),
     linkUrl : Optional({"https://example.com"}), strikethrough : Optional({TRUE}),
     underline : Optional({FALSE})]

ParagraphStyleArgs ==
    [alignment : Optional({"LEFT", "CENTER"}), indentEnd : Optional({18}),
     indentStart : Optional({0, 36}), keepWithNext : Optional(BOOLEAN),
     namedStyleType : Optional({"HEADING_1"}), spaceAbove : Optional({6}),
     spaceBelow : Optional({6})]

\* Ranges the builders are called with.
StyleRanges == {[endIndex |-> 5, startIndex |-> 1], [endIndex |-> 8, startIndex |-> 7]}

InitStyle ==
    /\ builder = "none"
    /\ styleArgs = Null
    /\ styleRange = Null
    /\ built = ReturnsNull

\* buildUpdateTextStyleRequest is called.
BuildTextStyle(range, style) ==
    /\ builder = "none"
    /\ builder' = "text"
    /\ styleArgs' = Some(style)
    /\ styleRange' = Some(range)
    /\ built' = buildUpdateTextStyleRequest(range.startIndex, range.endIndex, style)
    /\ UNCHANGED <<findVars, paraVars, colorVars, toolVars, initVars>>

\* buildUpdateParagraphStyleRequest is called.
BuildParagraphStyle(range, style) ==
    /\ builder = "none"
    /\ builder' = "paragraph"
    /\ styleArgs' = Some(style)
    /\ styleRange' = Some(range)
    /\ built' = buildUpdateParagraphStyleRequest(range.startIndex, range.endIndex, style)
    /\ UNCHANGED <<findVars, paraVars, colorVars, toolVars, initVars>>

\* The caller has what the builder produced.
BuilderReturn ==
    /\ builder # "none"
    /\ builder' = "none"
    /\ styleArgs' = Null
    /\ styleRange' = Null
    /\ built' = ReturnsNull
    /\ UNCHANGED <<findVars, paraVars, colorVars, toolVars, initVars>>

\* -------------------------------------------- claims: the style builders
\* A builder has run on the option record styleArgs[1].
Built == builder # "none"

\* The options of the record that are set.
OptionsSet == {k \in DOMAIN styleArgs[1] : styleArgs[1][k] # Null}

\* The field names in the order the builders push them.
TextFieldOrder ==
    <<"bold", "italic", "underline", "strikethrough", "fontSize",
      "weightedFontFamily", "foregroundColor", "backgroundColor", "link">>
ParagraphFieldOrder ==
    <<"alignment", "indentStart", "indentEnd", "spaceAbove", "spaceBelow",
      "namedStyleType", "keepWithNext">>

\* The option a field name stands for.
OptionOf(field) ==
    IF field = "weightedFontFamily" THEN "fontFamily"
    ELSE IF field = "link" THEN "linkUrl" ELSE field

\* The field names of the options set, each once, in the builders' order.
ExpectedMask ==
    SelectSeq(IF builder = "text" THEN TextFieldOrder ELSE ParagraphFieldOrder,
              LAMBDA f : OptionOf(f) \in OptionsSet)

\* The keys written into the request's style payload, in the order written.
PayloadKeys ==
    [i \in 1..Len(built.request[1].style) |-> built.request[1].style[i].key]

One == [den |-> 1, num |-> 1]
Zero == [den |-> 1, num |-> 0]

\* C6: a builder returns null exactly when no option of the record is set, and
\* the field mask of every request it returns is non-empty.
C6_NullIffNoOption ==
    Built =>
       /\ built.outcome = "null" <=> OptionsSet = {}
       /\ built.outcome = "request" =>
             /\ Len(built.fields) > 0
             /\ Len(built.request[1].fields) > 0

\* C6 witness: the paragraph builder returns null for the empty record.
C6_Witness ==
    /\ builder = "paragraph"
    /\ OptionsSet = {}
    /\ built.outcome = "null"

\* C7: the field mask lists exactly the options set (fontFamily as
\* weightedFontFamily, linkUrl as link), each once and in a fixed order, and its
\* names are the keys of the style payload; {foregroundColor: '#F00'} gives the
\* mask ['foregroundColor'] and red 1, green 0, blue 0.
C7_MaskIsOptionsSet ==
    /\ (Built /\ built.outcome = "request") =>
          /\ built.fields = ExpectedMask
          /\ PayloadKeys = built.fields
          /\ built.request[1].fields = JoinComma(ExpectedMask)
    /\ (builder = "text" /\ OptionsSet = {"foregroundColor"}
          /\ styleArgs[1].foregroundColor = Some(<<"#", "F", "0", "0">>))
       => /\ built.outcome = "request"
          /\ built.fields = <<"foregroundColor">>
          /\ built.request[1].style[1].value
                = [color |-> [rgbColor |-> [blue |-> Zero, green |-> Zero, red |-> One]]]

\* C7 witness: a text style request for a font family, a colour and a link.
C7_Witness ==
    /\ builder = "text"
    /\ OptionsSet = {"fontFamily", "foregroundColor", "linkUrl"}
    /\ built.outcome = "request"
    /\ built.fields = <<"weightedFontFamily", "foregroundColor", "link">>

\* An option that is set to a string that is no hex colour.
InvalidColorOption(k) ==
    /\ styleArgs[1][k] # Null
    /\ ~validateHexColor(styleArgs[1][k][1])

\* C8: with foregroundColor or backgroundColor set to a string that is no hex
\* colour, buildUpdateTextStyleRequest throws a UserError and builds no request,
\* whatever else is set.
C8_InvalidColorThrows ==
    (builder = "text"
       /\ (InvalidColorOption("foregroundColor") \/ InvalidColorOption("backgroundColor")))
       => /\ built.outcome = "UserError"
          /\ built.request = Null

\* C8 witness: only the background colour is invalid, among other options set.
C8_Witness ==
    /\ builder = "text"
    /\ InvalidColorOption("backgroundColor")
    /\ styleArgs[1].foregroundColor = Some(<<"#", "F", "0", "0">>)
    /\ styleArgs[1].bold # Null
    /\ built.outcome = "UserError"

\* ---------------------------------------------- claims: the hex colours
\* validateHexColor and hexToRgbColor have been applied to hex[1].
Converted == hex # Null

AllHexDigits(s) == \A k \in 1..Len(s) : IsHexDigit(s[k])

\* An optional '#' followed by exactly 3 or exactly 6 hexadecimal digits.
IsHexColor(s) ==
    \/ Len(s) \in {3, 6} /\ AllHexDigits(s)
    \/ Len(s) \in {4, 7} /\ s[1] = "#" /\ AllHexDigits(Tail(s))

\* C9: validateHexColor is true exactly for an optional '#' followed by exactly
\* 3 or 6 hexadecimal digits, and hexToRgbColor is null exactly where it is false.
C9_ValidExactlyHexColors ==
    Converted =>
       /\ hexValid <=> IsHexColor(hex[1])
       /\ rgb = Null <=> ~hexValid

\* C9 witness: seven hexadecimal digits are rejected by both.
C9_Witness ==
    /\ Converted
    /\ Len(hex[1]) = 7 /\ AllHexDigits(hex[1])
    /\ ~hexValid
    /\ rgb = Null

\* The digits of a colour, and the colour with its '#' added or removed.
DigitsOf(s) == IF Len(s) > 0 /\ s[1] = "#" THEN Tail(s) ELSE s
HashToggled(s) == IF Len(s) > 0 /\ s[1] = "#" THEN Tail(s) ELSE <<"#">> \o s
Doubled(d) == <<d[1], d[1], d[2], d[2], d[3], d[3]>>

\* The channel is the two-digit hexadecimal number high low, divided by 255.
IsChannel(channel, high, low) ==
    /\ channel.den > 0
    /\ channel.num * 255 = (16 * HexDigitValue(high) + HexDigitValue(low)) * channel.den

\* C10: hexToRgbColor gives a shorthand 'RGB' the triple of 'RRGGBB', gives the
\* same triple with and without '#', and each channel is its two-digit value
\* over 255; 'F00', '#F00', 'FF0000' and '#FF0000' give red 1, green 0, blue 0.
C10_ShorthandAndHashAgree ==
    (Converted /\ IsHexColor(hex[1])) =>
       LET d == DigitsOf(hex[1])
           full == IF Len(d) = 3 THEN Doubled(d) ELSE d
       IN  /\ rgb # Null
           /\ rgb = hexToRgbColor(HashToggled(hex[1]))
           /\ rgb = hexToRgbColor(full)
           /\ IsChannel(rgb[1].red, full[1], full[2])
           /\ IsChannel(rgb[1].green, full[3], full[4])
           /\ IsChannel(rgb[1].blue, full[5], full[6])
           /\ d \in {<<"F", "0", "0">>, <<"F", "F", "0", "0", "0", "0">>}
                 => rgb = Some([blue |-> Zero, green |-> Zero, red |-> One])

\* C10 witness: the shorthand '#F00' gives red 1, green 0, blue 0.
C10_Witness ==
    /\ Converted
    /\ hex[1] = <<"#", "F", "0", "0">>
    /\ rgb = Some([blue |-> Zero, green |-> Zero, red |-> One])

\* ---------------------------------------------------- executeBatchUpdate
MAX_BATCH_UPDATE_REQUESTS == 50

\* Request lists passed to executeBatchUpdate: a missing list, the empty list,
\* short lists, and one longer than MAX_BATCH_UPDATE_REQUESTS.
RequestLists ==
    {Null, Some(<<>>), Some(<<"insertText">>),
     Some(<<"deleteContentRange", "insertText">>),
     Some([i \in 1..(MAX_BATCH_UPDATE_REQUESTS + 1) |-> "insertText"])}

\* What documents.batchUpdate rejects with: error.code (absent for a network
\* error), error.message (absent, a validation message, another message) and
\* error.response.data.error.details (absent or a list of descriptions).
InvalidRequestsMessage == "Invalid requests[0].deleteContentRange: Index 99 is out of bounds"
RemoteErrors ==
    [code    : {400, 403, 404, 500, Undefined},
     details : {Null, Some(<<"Index 99 must be less than the end index">>)},
     message : {Null, Some(InvalidRequestsMessage), Some("Backend Error")}]

\* error.message.includes('Invalid requests')
IncludesInvalidRequests(message) == message = InvalidRequestsMessage

\* `${error.code}` and `${error.message}` inside a template string.
CodeText(code) == IF code = Undefined THEN "undefined" ELSE ToString(code)
MessageText(message) == IF message = Null THEN "undefined" ELSE message[1]

\* What an invocation ends with: a returned value, or a thrown error of a class
\* with its message (the parts of the template string).
Returned(value) == [message |-> <<>>, outcome |-> "returned", value |-> Some(value)]
Thrown(class, message) == [message |-> message, outcome |-> class, value |-> Null]
NoResult == [message |-> <<>>, outcome |-> "none", value |-> Null]

\* `return {}`
EmptyResponse == [replies |-> <<>>]

\* Mutant of NothingToDo: only a missing list is nothing to do.
NothingToDo_MissingOnly(requests) == requests = Null

\* `!requests || requests.length === 0`
NothingToDo(requests) == requests = Null \/ Len(requests[1]) = 0

\* Mutant of BatchUpdateCatch: every rejection is an internal error.
BatchUpdateCatch_AllInternal(documentId, error) ==
    Thrown("Error", <<"Google API Error (", CodeText(error.code), "): ", MessageText(error.message)>>)

\* The catch block of executeBatchUpdate: what is thrown for a rejection.
BatchUpdateCatch(documentId, error) ==
    IF error.code = 400 /\ error.message = Null
    THEN \* error.message.includes on undefined
         Thrown("TypeError", <<"Cannot read properties of undefined">>)
    ELSE IF error.code = 400 /\ IncludesInvalidRequests(error.message[1])
    THEN Thrown("UserError",
                <<"Invalid request sent to Google Docs API. Details: ",
                  IF error.details # Null THEN error.details[1] ELSE error.message[1]>>)
    ELSE IF error.code = 404
    THEN Thrown("UserError", <<"Document not found (ID: ", documentId, "). Check the ID.">>)
    ELSE IF error.code = 403
    THEN Thrown("UserError",
                <<"Permission denied for document (ID: ", documentId,
                  "). Ensure the authenticated user has edit access.">>)
    ELSE Thrown("Error", <<"Google API Error (", CodeText(error.code), "): ", MessageText(error.message)>>)

InitTools ==
    /\ toolPc = "idle"
    /\ tool = "none"
    /\ toolArgs = Null
    /\ batchCalls = <<>>
    /\ toolFetches = 0
    /\ caught = Null
    /\ toolResult = NoResult

\* What the caller of executeBatchUpdate does with its outcome: the helper's
\* own caller gets it as it is; a tool returns its success message, rethrows a
\* UserError and wraps anything else in a UserError.
AfterBatch(toolName, res) ==
    IF toolName = "executeBatchUpdate" THEN res
    ELSE IF res.outcome = "returned"
    THEN Returned(<<"Successfully ", toolName>>)
    ELSE IF res.outcome = "UserError" THEN res
    ELSE Thrown("UserError", <<"Failed to ", toolName, ": ">> \o res.message)

\* Mutant of EnterExecuteBatchUpdate: a list longer than
\* MAX_BATCH_UPDATE_REQUESTS is cut and only its first batch is sent.
EnterExecuteBatchUpdate_FirstBatch(toolName, documentId, requests) ==
    IF NothingToDo(requests)
    THEN /\ toolResult' = AfterBatch(toolName, Returned(EmptyResponse))
         /\ toolPc' = "done"
         /\ UNCHANGED batchCalls
    ELSE /\ batchCalls' = Append(batchCalls,
                [documentId |-> documentId,
                 requests   |-> IF Len(requests[1]) > MAX_BATCH_UPDATE_REQUESTS
                                THEN SubSeq(requests[1], 1, MAX_BATCH_UPDATE_REQUESTS)
                                ELSE requests[1]])
         /\ toolPc' = "batchUpdate"
         /\ UNCHANGED toolResult

\* executeBatchUpdate(docs, documentId, requests) is entered by toolName:
\* nothing to do, or documents.batchUpdate is called with the list and awaited.
EnterExecuteBatchUpdate(toolName, documentId, requests) ==
    IF NothingToDo(requests)
    THEN /\ toolResult' = AfterBatch(toolName, Returned(EmptyResponse))
         /\ toolPc' = "done"
         /\ UNCHANGED batchCalls
    ELSE /\ batchCalls' = Append(batchCalls,
                                 [documentId |-> documentId, requests |-> requests[1]])
         /\ toolPc' = "batchUpdate"
         /\ UNCHANGED toolResult

\* executeBatchUpdate(docs, documentId, requests) is called on its own.
ExecuteBatchUpdateCall(documentId, requests) ==
    /\ UNCHANGED <<findVars, paraVars, styleVars, colorVars, initVars>>
    /\ toolPc = "idle"
    /\ tool' = "executeBatchUpdate"
    /\ toolArgs' = Some([documentId |-> documentId, requests |-> requests])
    /\ EnterExecuteBatchUpdate("executeBatchUpdate", documentId, requests)
    /\ UNCHANGED <<toolFetches, caught>>

\* documents.batchUpdate resolves: `return response.data`.
BatchUpdateSucceeds ==
    /\ UNCHANGED <<findVars, paraVars, styleVars, colorVars, initVars>>
    /\ toolPc = "batchUpdate"
    /\ toolResult' = AfterBatch(tool,
          Returned([replies |-> [i \in 1..Len(batchCalls[Len(batchCalls)].requests) |-> "reply"]]))
    /\ toolPc' = "done"
    /\ UNCHANGED <<tool, toolArgs, batchCalls, toolFetches, caught>>

\* documents.batchUpdate rejects: the catch block classifies and rethrows.
BatchUpdateFails(error) ==
    /\ UNCHANGED <<findVars, paraVars, styleVars, colorVars, initVars>>
    /\ toolPc = "batchUpdate"
    /\ caught' = Some(error)
    /\ toolResult' = AfterBatch(tool, BatchUpdateCatch(toolArgs[1].documentId, error))
    /\ toolPc' = "done"
    /\ UNCHANGED <<tool, toolArgs, batchCalls, toolFetches>>

\* ------------------------------------------------------------ the tools
MaxIndex == 3

\* Caller-supplied index pairs, in either order and equal.
ToolRanges == [endIndex : 0..MaxIndex, startIndex : 0..MaxIndex]

\* A target given as search text and occurrence number.
TextTargets == [matchInstance : 1..MaxInstance, textToFind : {TestWord, <<"z">>}]

\* A target given as an offset inside the paragraph meant.
IndexTargets == [indexWithinParagraph : 0..MaxIndex]

\* The search text and the occurrence number the running tool passes to
\* findTextRange: formatMatchingText has them among its arguments, the style
\* tools in their target (applyParagraphStyle passes `matchInstance || 1`).
SearchText ==
    IF tool = "formatMatchingText" THEN toolArgs[1].textToFind
    ELSE toolArgs[1].target.textToFind
SearchInstance ==
    IF tool = "formatMatchingText" THEN toolArgs[1].matchInstance
    ELSE IF "matchInstance" \in DOMAIN toolArgs[1].target
    THEN toolArgs[1].target.matchInstance
    ELSE 1

\* Style records the tools are called with: no option, one option, a colour
\* that is no hex colour.
NoTextStyle ==
    [backgroundColor |-> Null, bold |-> Null, fontFamily |-> Null, fontSize |-> Null,
     foregroundColor |-> Null, italic |-> Null, linkUrl |-> Null,
     strikethrough |-> Null, underline |-> Null]
ToolTextStyles ==
    {NoTextStyle, [NoTextStyle EXCEPT !.bold = Some(TRUE)],
     [NoTextStyle EXCEPT !.foregroundColor = Some(<<"r", "e", "d">>)]}
NoParagraphStyle ==
    [alignment |-> Null, indentEnd |-> Null, indentStart |-> Null,
     keepWithNext |-> Null, namedStyleType |-> Null, spaceAbove |-> Null,
     spaceBelow |-> Null]
ToolParagraphStyles ==
    {NoParagraphStyle, [NoParagraphStyle EXCEPT !.alignment = Some("CENTER")]}

\* The parameter schema of deleteRange: both indices at least 1 and
\* endIndex > startIndex.
DeleteRangeParameters(range) ==
    /\ range.startIndex >= 1
    /\ range.endIndex >= 1
    /\ range.endIndex > range.startIndex

\* Mutant of RangeIsInvalid: an empty range is let through.
RangeIsInvalid_EmptyAllowed(range) == range.endIndex < range.startIndex

\* `endIndex <= startIndex`, as the tools test it before building a request.
RangeIsInvalid(range) == range.endIndex <= range.startIndex

\* The tool ends without calling executeBatchUpdate.
ToolEnds(res) ==
    /\ toolResult' = res
    /\ toolPc' = "done"
    /\ UNCHANGED batchCalls

\* deleteRange: the parameters are validated, then execute checks the range and
\* sends one deleteContentRange request.
DeleteRangeCall(documentId, range) ==
    /\ UNCHANGED <<findVars, paraVars, styleVars, colorVars, initVars>>
    /\ toolPc = "idle"
    /\ tool' = "deleteRange"
    /\ toolArgs' = Some([documentId |-> documentId, range |-> range])
    /\ UNCHANGED <<toolFetches, caught>>
    /\ IF ~DeleteRangeParameters(range)
       THEN ToolEnds(Thrown("InvalidParams", <<"endIndex must be greater than startIndex">>))
       ELSE IF RangeIsInvalid(range)
       THEN ToolEnds(Thrown("UserError",
                            <<"End index must be greater than start index for deletion.">>))
       ELSE EnterExecuteBatchUpdate("deleteRange", documentId,
                                    Some(<<[deleteContentRange |-> [range |-> range]]>>))

\* Mutant of SendStyle: without a request an empty update is sent.
SendStyle_SendsEmpty(toolName, documentId, requestInfo) ==
    IF requestInfo.outcome = "UserError"
    THEN ToolEnds(Thrown("UserError", <<"Invalid hex color format">>))
    ELSE IF requestInfo.outcome = "null"
    THEN EnterExecuteBatchUpdate(toolName, documentId, Some(<<"empty update">>))
    ELSE EnterExecuteBatchUpdate(toolName, documentId, Some(<<requestInfo.request[1]>>))

\* What the style tools do with what the builder gave: its UserError is
\* rethrown, without a request the no-action message is returned, a request is
\* sent.
SendStyle(toolName, documentId, requestInfo) ==
    IF requestInfo.outcome = "UserError"
    THEN ToolEnds(Thrown("UserError", <<"Invalid hex color format">>))
    ELSE IF requestInfo.outcome = "null"
    THEN ToolEnds(Returned(<<"No valid styling options were provided.">>))
    ELSE EnterExecuteBatchUpdate(toolName, documentId, Some(<<requestInfo.request[1]>>))

\* The range check and what follows it in applyTextStyle and applyParagraphStyle:
\* the request is built and, unless there is none, sent.
StyleRange(toolName, documentId, range, requestInfo) ==
    IF RangeIsInvalid(range)
    THEN ToolEnds(Thrown("UserError", <<"End index must be greater than start index">>))
    ELSE SendStyle(toolName, documentId, requestInfo)

\* applyTextStyle is called: with a range target the range is used as given,
\* with a text target findTextRange is called and awaited.
ApplyTextStyleCall(documentId, target, style) ==
    /\ UNCHANGED <<findVars, paraVars, styleVars, colorVars, initVars>>
    /\ toolPc = "idle"
    /\ pc = "idle"
    /\ tool' = "applyTextStyle"
    /\ toolArgs' = Some([documentId |-> documentId, style |-> style, target |-> target])
    /\ UNCHANGED <<toolFetches, caught>>
    /\ IF "textToFind" \in DOMAIN target
       THEN /\ toolPc' = "findTextRange"
            /\ UNCHANGED <<batchCalls, toolResult>>
       ELSE StyleRange("applyTextStyle", documentId, target,
                       buildUpdateTextStyleRequest(target.startIndex, target.endIndex, style))

\* findTextRange has ended inside applyTextStyle: its error is rethrown or
\* wrapped, null is a UserError, a range is checked, styled and sent.
ApplyTextStyleFound ==
    /\ FindLocalsGone
    /\ UNCHANGED <<paraVars, styleVars, colorVars, initVars>>
    /\ toolPc = "findTextRange"
    /\ tool = "applyTextStyle"
    /\ pc = "done"
    /\ toolFetches' = toolFetches + fetches
    /\ UNCHANGED <<tool, toolArgs, caught>>
    /\ IF outcome = "UserError"
       THEN ToolEnds(Thrown("UserError", <<"while searching text">>))
       ELSE IF outcome = "Error"
       THEN ToolEnds(Thrown("UserError", <<"Failed to apply text style: ">>))
       ELSE IF result = Null
       THEN ToolEnds(Thrown("UserError",
                            <<"Could not find instance ", "${args.target.matchInstance}",
                              " of text \"", "${args.target.textToFind}", "\".">>))
       ELSE StyleRange("applyTextStyle", toolArgs[1].documentId, result[1],
                       buildUpdateTextStyleRequest(result[1].startIndex, result[1].endIndex,
                                                   toolArgs[1].style))

\* applyParagraphStyle is called: with a text target findTextRange is called and
\* awaited, with an offset target getParagraphRange is, and a range target is
\* used as given.
ApplyParagraphStyleCall(documentId, target, style) ==
    /\ UNCHANGED <<findVars, styleVars, colorVars, initVars>>
    /\ toolPc = "idle"
    /\ pc = "idle"
    /\ paraPc = "idle"
    /\ tool' = "applyParagraphStyle"
    /\ toolArgs' = Some([documentId |-> documentId, style |-> style, target |-> target])
    /\ UNCHANGED <<toolFetches, caught>>
    /\ IF "textToFind" \in DOMAIN target
       THEN /\ toolPc' = "findTextRange"
            /\ UNCHANGED <<batchCalls, toolResult>>
            /\ UNCHANGED paraVars
       ELSE IF "indexWithinParagraph" \in DOMAIN target
       THEN /\ toolPc' = "getParagraphRange"
            /\ EnterGetParagraphRange(documentId, target.indexWithinParagraph)
            /\ UNCHANGED <<batchCalls, toolResult>>
       ELSE /\ UNCHANGED paraVars
            /\ StyleRange("applyParagraphStyle", documentId, target,
                          buildUpdateParagraphStyleRequest(target.startIndex,
                                                           target.endIndex, style))

\* findTextRange has ended inside applyParagraphStyle: its error is rethrown or
\* wrapped, null is a UserError, and with a range getParagraphRange is called
\* for the range's start and awaited.
ApplyParagraphStyleTextFound ==
    /\ FindLocalsGone
    /\ UNCHANGED <<styleVars, colorVars, initVars>>
    /\ toolPc = "findTextRange"
    /\ tool = "applyParagraphStyle"
    /\ pc = "done"
    /\ toolFetches' = toolFetches + fetches
    /\ UNCHANGED <<tool, toolArgs, caught>>
    /\ IF outcome = "UserError"
       THEN UNCHANGED paraVars /\ ToolEnds(Thrown("UserError", <<"while searching text">>))
       ELSE IF outcome = "Error"
       THEN UNCHANGED paraVars
            /\ ToolEnds(Thrown("UserError", <<"Failed to apply paragraph style: ">>))
       ELSE IF result = Null
       THEN UNCHANGED paraVars
            /\ ToolEnds(Thrown("UserError",
                               <<"Could not find \"", "${args.target.textToFind}",
                                 "\" in the document.">>))
       ELSE /\ toolPc' = "getParagraphRange"
            /\ EnterGetParagraphRange(toolArgs[1].documentId, result[1].startIndex)
            /\ UNCHANGED <<batchCalls, toolResult>>

\* getParagraphRange has ended inside applyParagraphStyle: its error is rethrown
\* or wrapped, null is a UserError, a paragraph's range is checked, styled and
\* sent.
ApplyParagraphStyleParagraphFound ==
    /\ ParagraphLocalsGone
    /\ UNCHANGED <<findVars, styleVars, colorVars, initVars>>
    /\ toolPc = "getParagraphRange"
    /\ tool = "applyParagraphStyle"
    /\ paraPc = "done"
    /\ toolFetches' = toolFetches + paraFetches
    /\ UNCHANGED <<tool, toolArgs, caught>>
    /\ IF paraOutcome = "UserError"
       THEN ToolEnds(Thrown("UserError", <<"while finding paragraph">>))
       ELSE IF paraOutcome = "Error"
       THEN ToolEnds(Thrown("UserError", <<"Failed to apply paragraph style: ">>))
       ELSE IF paragraphRange = Null
       THEN ToolEnds(Thrown("UserError",
               IF "textToFind" \in DOMAIN toolArgs[1].target
               THEN <<"Found the text but could not determine the paragraph boundaries.">>
               ELSE <<"Could not find paragraph containing index ",
                      "${args.target.indexWithinParagraph}", ".">>))
       ELSE StyleRange("applyParagraphStyle", toolArgs[1].documentId, paragraphRange[1],
                       buildUpdateParagraphStyleRequest(paragraphRange[1].startIndex,
                                                        paragraphRange[1].endIndex,
                                                        toolArgs[1].style))

\* The parameter schema of formatMatchingText: a search text of at least one
\* character, colours that match the hex pattern, and at least one formatting
\* option.
FormatMatchingTextParameters(text, style) ==
    /\ Len(text) >= 1
    /\ style.foregroundColor # Null => validateHexColor(style.foregroundColor[1])
    /\ style.backgroundColor # Null => validateHexColor(style.backgroundColor[1])
    /\ \E option \in DOMAIN style : style[option] # Null

\* formatMatchingText is called: the parameters are validated, then
\* findTextRange is called and awaited.
FormatMatchingTextCall(documentId, text, n, style) ==
    /\ UNCHANGED <<findVars, paraVars, styleVars, colorVars, initVars>>
    /\ toolPc = "idle"
    /\ pc = "idle"
    /\ tool' = "formatMatchingText"
    /\ toolArgs' = Some([documentId |-> documentId, matchInstance |-> n,
                         style |-> style, textToFind |-> text])
    /\ UNCHANGED <<toolFetches, caught>>
    /\ IF ~FormatMatchingTextParameters(text, style)
       THEN ToolEnds(Thrown("InvalidParams", <<"Invalid parameters">>))
       ELSE /\ toolPc' = "findTextRange"
            /\ UNCHANGED <<batchCalls, toolResult>>

\* findTextRange has ended inside formatMatchingText: a UserError is rethrown,
\* another error wrapped, null is a UserError, a range is styled and sent.
FormatMatchingTextFound ==
    /\ FindLocalsGone
    /\ UNCHANGED <<paraVars, styleVars, colorVars, initVars>>
    /\ toolPc = "findTextRange"
    /\ tool = "formatMatchingText"
    /\ pc = "done"
    /\ toolFetches' = toolFetches + fetches
    /\ UNCHANGED <<tool, toolArgs, caught>>
    /\ IF outcome = "UserError"
       THEN ToolEnds(Thrown("UserError", <<"while searching text">>))
       ELSE IF outcome = "Error"
       THEN ToolEnds(Thrown("UserError", <<"Failed to format text: ">>))
       ELSE IF result = Null
       THEN ToolEnds(Thrown("UserError",
                            <<"Could not find instance ", "${args.matchInstance}",
                              " of text \"", "${args.textToFind}", "\".">>))
       ELSE SendStyle("formatMatchingText", toolArgs[1].documentId,
                      buildUpdateTextStyleRequest(result[1].startIndex, result[1].endIndex,
                                                  toolArgs[1].style))

\* insertText: the parameters are validated (a text of at least one character,
\* an index of at least 1); the helper returns at once for an empty text and
\* sends one insertText request otherwise.
InsertTextCall(documentId, text, index) ==
    /\ UNCHANGED <<findVars, paraVars, styleVars, colorVars, initVars>>
    /\ toolPc = "idle"
    /\ tool' = "insertText"
    /\ toolArgs' = Some([documentId |-> documentId, index |-> index, textToInsert |-> text])
    /\ UNCHANGED <<toolFetches, caught>>
    /\ IF Len(text) < 1 \/ index < 1
       THEN ToolEnds(Thrown("InvalidParams", <<"Invalid parameters">>))
       ELSE IF Len(text) = 0
       THEN ToolEnds(AfterBatch("insertText", Returned(EmptyResponse)))
       ELSE EnterExecuteBatchUpdate("insertText", documentId,
               Some(<<[insertText |-> [location |-> [index |-> index], text |-> text]]>>))

\* insertTable: the parameters are validated (rows, columns and index at least
\* 1); createTable checks rows and columns again and sends one insertTable
\* request.
InsertTableCall(documentId, rows, columns, index) ==
    /\ UNCHANGED <<findVars, paraVars, styleVars, colorVars, initVars>>
    /\ toolPc = "idle"
    /\ tool' = "insertTable"
    /\ toolArgs' = Some([columns |-> columns, documentId |-> documentId,
                         index |-> index, rows |-> rows])
    /\ UNCHANGED <<toolFetches, caught>>
    /\ IF rows < 1 \/ columns < 1 \/ index < 1
       THEN ToolEnds(Thrown("InvalidParams", <<"Invalid parameters">>))
       ELSE IF rows < 1 \/ columns < 1
       THEN ToolEnds(Thrown("UserError", <<"Table must have at least 1 row and 1 column.">>))
       ELSE EnterExecuteBatchUpdate("insertTable", documentId,
               Some(<<[insertTable |-> [columns |-> columns,
                                        location |-> [index |-> index], rows |-> rows]]>>))

\* insertPageBreak: the index is validated and one insertPageBreak request sent.
InsertPageBreakCall(documentId, index) ==
    /\ UNCHANGED <<findVars, paraVars, styleVars, colorVars, initVars>>
    /\ toolPc = "idle"
    /\ tool' = "insertPageBreak"
    /\ toolArgs' = Some([documentId |-> documentId, index |-> index])
    /\ UNCHANGED <<toolFetches, caught>>
    /\ IF index < 1
       THEN ToolEnds(Thrown("InvalidParams", <<"Invalid parameters">>))
       ELSE EnterExecuteBatchUpdate("insertPageBreak", documentId,
               Some(<<[insertPageBreak |-> [location |-> [index |-> index]]]>>))

\* What the stubs throw.
NotImplemented(what) == Thrown("NotImplementedError", <<what, " is not yet implemented.">>)

\* Mutant of detectAndFormatLists: the commented-out `return {}`.
detectAndFormatLists_ReturnsEmpty == Returned(EmptyResponse)

\* findParagraphsMatchingStyle(docs, documentId, styleCriteria)
findParagraphsMatchingStyle == NotImplemented("Finding paragraphs by style criteria")

\* detectAndFormatLists(docs, documentId, startIndex, endIndex)
detectAndFormatLists == NotImplemented("Automatic list detection and formatting")

\* What fixListFormatting does with detectAndFormatLists's outcome: a returned
\* value gives the success message, UserError and NotImplementedError are
\* rethrown, anything else is wrapped in a UserError.
fixListFormatting(res) ==
    IF res.outcome = "returned"
    THEN Returned(<<"Attempted to fix list formatting. Please review the document for accuracy.">>)
    ELSE IF res.outcome \in {"UserError", "NotImplementedError"} THEN res
    ELSE Thrown("UserError", <<"Failed to fix list formatting: ">> \o res.message)

\* One of the stubbed helpers, or the fixListFormatting tool, is called.
StubCall(name, documentId, range) ==
    /\ UNCHANGED <<findVars, paraVars, styleVars, colorVars, initVars>>
    /\ toolPc = "idle"
    /\ tool' = name
    /\ toolArgs' = Some([documentId |-> documentId, range |-> range])
    /\ UNCHANGED <<toolFetches, caught>>
    /\ ToolEnds(IF name = "findParagraphsMatchingStyle" THEN findParagraphsMatchingStyle
                ELSE IF name = "detectAndFormatLists" THEN detectAndFormatLists
                ELSE fixListFormatting(detectAndFormatLists))

StubNames == {"findParagraphsMatchingStyle", "detectAndFormatLists", "fixListFormatting"}

\* The caller has the outcome; the invocation is over.
ToolReturn ==
    /\ UNCHANGED <<findVars, paraVars, styleVars, colorVars, initVars>>
    /\ toolPc = "done"
    /\ toolPc' = "idle"
    /\ tool' = "none"
    /\ toolArgs' = Null
    /\ batchCalls' = <<>>
    /\ toolFetches' = 0
    /\ caught' = Null
    /\ toolResult' = NoResult


\* ------------------------------------- claims: one fetch per invocation
\* The native offset of the logical string's character at position p.
NativeOf(p) == Fragments[FragmentAt(p)].start + (p - LogicalStart(FragmentAt(p)))

\* What the snapshot, the search string and n determine: the native range from
\* the first to just past the last character of the n-th occurrence, or Null.
ExpectedRange(s, n) ==
    IF n > Cardinality(Positions(s)) THEN Null
    ELSE LET p == NthPosition(s, n)
         IN  Some([endIndex |-> NativeOf(p + Len(s) - 1) + 1, startIndex |-> NativeOf(p)])

\* The paragraphs of the snapshot getParagraphRange fetched that hold the offset.
ParagraphsAtIndex ==
    {[endIndex |-> q.endIndex, startIndex |-> q.startIndex] :
        q \in {r \in ParagraphsOf(paraSnapshot[1], 0) :
                  r.startIndex <= indexWithin /\ indexWithin < r.endIndex}}

\* ------------------------------- claims: offsets that are in no paragraph
RECURSIVE OtherElementsOf(_)
\* The structural elements of a content list, at any depth of table nesting,
\* that are neither paragraphs nor tables; an absent startIndex stands for 0.
OtherElementsOf(content) ==
    UNION {IF el.kind = "paragraph" THEN {}
           ELSE IF el.kind = "table"
           THEN UNION {UNION {OtherElementsOf(row[c]) : c \in 1..Len(row)}
                          : row \in {el.tableRows[r] : r \in 1..Len(el.tableRows)}}
           ELSE {[endIndex   |-> el.endIndex,
                  startIndex |-> IF el.startIndex = Undefined THEN 0
                                 ELSE el.startIndex]}
              : el \in {content[k] : k \in 1..Len(content)}}

\* The queried offset lies inside a section break, a table of contents or
\* another element that is neither a paragraph nor a table.
InOtherElement ==
    \E el \in OtherElementsOf(paraSnapshot[1]) :
        el.startIndex <= indexWithin /\ indexWithin < el.endIndex

\* The queried offset lies inside a table but in no paragraph of its cells.
InTableOutsideParagraphs ==
    /\ \E t \in TablesOf(paraSnapshot[1]) :
          t.startIndex <= indexWithin /\ indexWithin < t.endIndex
    /\ ParagraphsAtIndex = {}

\* C29: a range returned by getParagraphRange is exactly the range of one
\* paragraph element of the fetched snapshot and holds the queried offset
\* half-open, startIndex <= offset < endIndex: an offset equal to a paragraph's
\* endIndex is never resolved to that paragraph.
C29_RangeIsParagraphHoldingOffset ==
    (Resolved /\ paragraphRange # Null) =>
       /\ paragraphRange[1] \in ParagraphsAtIndex
       /\ paragraphRange[1].startIndex <= indexWithin
       /\ indexWithin < paragraphRange[1].endIndex
       /\ \A q \in ParagraphsOf(paraSnapshot[1], 0) :
             q.endIndex = indexWithin =>
                paragraphRange # Some([endIndex |-> q.endIndex, startIndex |-> q.startIndex])

\* C29 witness: the offset is the endIndex of one paragraph and the startIndex
\* of the next, and the next one's range was returned.
C29_Witness ==
    /\ Resolved
    /\ paragraphRange # Null
    /\ paragraphRange[1].startIndex = indexWithin
    /\ \E q \in ParagraphsOf(paraSnapshot[1], 0) : q.endIndex = indexWithin

\* C20: for an offset inside a structural element that is neither a paragraph
\* nor a table (a section break, a table of contents), or inside a table but in
\* none of its cells' paragraphs, getParagraphRange returns null: no range and
\* no error.
C20_NoParagraphGivesNull ==
    (paraPc = "done" /\ paraSnapshot # Null
        /\ (InOtherElement \/ InTableOutsideParagraphs))
    => (paraOutcome = "returned" /\ paragraphRange = Null)

\* C20 witness: the offset is inside an entry of a table of contents, and null
\* was returned.
C20_Witness ==
    /\ Resolved
    /\ paragraphRange = Null
    /\ \E k \in 1..Len(paraSnapshot[1]) :
          LET el == paraSnapshot[1][k]
          IN  /\ el.kind = "tableOfContents"
              /\ \E j \in 1..Len(el.content) :
                    /\ el.content[j].startIndex <= indexWithin
                    /\ indexWithin < el.content[j].endIndex

\* C15: an invocation of findTextRange or getParagraphRange fetches the document
\* exactly once, for the document id it was given, and its result is determined
\* by that snapshot and its own arguments.
C15_OneFetchPerInvocation ==
    /\ fetches = IF pc \in {"loop", "done"} THEN 1 ELSE 0
    /\ pc # "idle" => requested = Some([documentId |-> findDocumentId[1]])
    /\ (pc \in {"loop", "done"} /\ snapshot # Null) => fullText = LogicalString
    /\ (Searched /\ Len(textToFind) > 0) => result = ExpectedRange(textToFind, instance)
    /\ paraFetches = IF paraPc = "done" THEN 1 ELSE 0
    /\ paraPc # "idle" => paraRequested = Some([documentId |-> paraDocumentId[1]])
    /\ (paraPc = "done" /\ paraOutcome = "returned" /\ paraSnapshot # Null) =>
          IF ParagraphsAtIndex = {} THEN paragraphRange = Null
          ELSE paragraphRange # Null /\ paragraphRange[1] \in ParagraphsAtIndex

\* C15 witness: findTextRange has returned a range for the second document
\* after one fetch.
C15_Witness ==
    /\ Searched
    /\ findDocumentId = Some("docABC")
    /\ requested = Some([documentId |-> "docABC"])
    /\ fetches = 1
    /\ result # Null

\* ------------------------------------------- claims: counting occurrences
\* The search string is not empty and the loop is counting its occurrences.
Counting == pc = "loop" /\ Len(textToFind) > 0 /\ foundCount > 0

\* The logical position of the match that was returned.
ReturnedPosition ==
    CHOOSE p \in 0..(Len(LogicalString) - 1) : NativeOf(p) = result[1].startIndex

\* C16: the search resumes at matchStart + 1, so the occurrence numbered N is
\* the one at the N-th smallest position at which the search string occurs in
\* the logical string, directly adjacent matches included.
C16_NthSmallestPosition ==
    /\ Counting =>
          /\ foundCount <= Cardinality(Positions(textToFind))
          /\ searchStartIndex = NthPosition(textToFind, foundCount) + 1
    /\ (Searched /\ Len(textToFind) > 0 /\ instance <= Cardinality(Positions(textToFind)))
       => /\ result # Null
          /\ result[1].startIndex = NativeOf(NthPosition(textToFind, instance))

\* C16 witness: the match returned starts where the match before it ends.
C16_Witness ==
    /\ Searched /\ Len(textToFind) > 0 /\ instance >= 2
    /\ result # Null
    /\ instance <= Cardinality(Positions(textToFind))
    /\ NthPosition(textToFind, instance)
          = NthPosition(textToFind, instance - 1) + Len(textToFind)
    /\ ReturnedPosition = NthPosition(textToFind, instance)

\* C17: for a non-empty search string and N >= 2, the span of the match counted
\* as N does not overlap the span of the match counted as N - 1 (the match that
\* the last resumption, at its start + 1, followed).
C17_ConsecutiveMatchesDisjoint ==
    (Searched /\ Len(textToFind) > 0 /\ instance >= 2 /\ result # Null)
       => ReturnedPosition >= (searchStartIndex - 1) + Len(textToFind)

\* The occurrence at logical position p, of length n, takes characters from two
\* consecutive fragments with native offsets between them that hold no text.
CrossesGap(p, n) ==
    \E i \in FragmentAt(p)..(FragmentAt(p + n - 1) - 1) :
        Fragments[i + 1].start > Fragments[i].end

\* C18: when the N-th occurrence crosses two fragments that are not adjacent in
\* native offsets, findTextRange returns no range for that occurrence: it ends
\* in not-found or returns a later occurrence.
C18_GapOccurrenceNotReturned ==
    (Searched /\ Len(textToFind) > 0
       /\ instance <= Cardinality(Positions(textToFind))
       /\ CrossesGap(NthPosition(textToFind, instance), Len(textToFind)))
       => \/ result = Null
          \/ ReturnedPosition > NthPosition(textToFind, instance)

\* The first and the last logical position of fragment i.
FirstOf(i) == LogicalStart(i)
LastOf(i) == LogicalStart(i) + Len(Fragments[i].text) - 1

\* C19: an occurrence that ends at the last character of a fragment gets that
\* fragment's nativeStart plus its text length as endIndex, not the next
\* fragment's nativeStart; one that starts at the first character of a fragment
\* gets that fragment's nativeStart as startIndex, not the previous fragment's
\* nativeEnd.
C19_BoundariesBelongToOwnFragment ==
    (Searched /\ Len(textToFind) > 0 /\ result # Null) =>
       LET first == NthPosition(textToFind, instance)
           last  == first + Len(textToFind) - 1
           i     == FragmentAt(last)
           j     == FragmentAt(first)
       IN  /\ last = LastOf(i) =>
                 result[1].endIndex = Fragments[i].start + Len(Fragments[i].text)
           /\ first = FirstOf(j) => result[1].startIndex = Fragments[j].start

\* C19 witness: the occurrence returned is a whole fragment that has another
\* fragment before it and, after native offsets without text, one behind it.
C19_Witness ==
    /\ Searched /\ Len(textToFind) > 0 /\ result # Null
    /\ LET first == NthPosition(textToFind, instance)
           i     == FragmentAt(first + Len(textToFind) - 1)
           j     == FragmentAt(first)
       IN  /\ first = FirstOf(j) /\ j > 1
           /\ first + Len(textToFind) - 1 = LastOf(i) /\ i < Len(Fragments)
           /\ Fragments[i + 1].start > Fragments[i].end
           /\ result[1].endIndex = Fragments[i].end
           /\ result[1].startIndex = Fragments[j].start

\* --------------------------------------- claims: the occurrence loop
\* C27: for a non-empty search string the offset mapping never fails: every
\* occurrence found in the logical string maps to a start and an end native
\* index, so the retry branch is never taken (the matches counted are exactly
\* the occurrences passed) and the range returned for N is that of the N-th
\* occurrence.
C27_MappingNeverFails ==
    /\ (pc = "loop" /\ Len(textToFind) > 0) =>
          LET currentIndex == indexOf(fullText, textToFind, searchStartIndex)
              mapped == MapToSegments(segments, 1, 0, startIndex, endIndex,
                                      currentIndex, currentIndex + Len(textToFind))
          IN  /\ startIndex = NotMapped /\ endIndex = NotMapped
              /\ foundCount = Cardinality({p \in Positions(textToFind) : p < searchStartIndex})
              /\ currentIndex # NotMapped =>
                    mapped.startIndex # NotMapped /\ mapped.endIndex # NotMapped
    /\ (Searched /\ Len(textToFind) > 0) =>
          /\ result = Null <=> Cardinality(Positions(textToFind)) < instance
          /\ result # Null =>
                /\ foundCount = instance
                /\ result[1].startIndex = NativeOf(NthPosition(textToFind, instance))

\* C27 witness: the second occurrence, whose characters lie in two fragments,
\* was mapped and returned.
C27_Witness ==
    /\ Searched
    /\ Len(textToFind) > 1
    /\ instance = 2
    /\ result # Null
    /\ FragmentAt(NthPosition(textToFind, 2))
          # FragmentAt(NthPosition(textToFind, 2) + Len(textToFind) - 1)

\* C28: the occurrence loop terminates for every snapshot, every search string
\* (the empty one included) and every instance: an iteration returns a range,
\* or stops with not-found, or moves searchStartIndex forward within the
\* text, so that only finitely many iterations remain.
C28_LoopAdvances ==
    pc = "loop" =>
       LET currentIndex == indexOf(fullText, textToFind, searchStartIndex)
           mapped == MapToSegments(segments, 1, 0, startIndex, endIndex,
                                   currentIndex, currentIndex + Len(textToFind))
       IN  \/ ~(foundCount < instance)
           \/ currentIndex = NotMapped
           \/ /\ foundCount + 1 = instance
              /\ mapped.startIndex # NotMapped
              /\ mapped.endIndex # NotMapped
           \/ /\ ResumeAt(currentIndex, textToFind) > searchStartIndex
              /\ ResumeAt(currentIndex, textToFind) <= Len(fullText) + 1

\* ----------------------------------------- claims: executeBatchUpdate
\* executeBatchUpdate itself was invoked, not a tool that calls it.
BatchInvoked == tool = "executeBatchUpdate"

\* Parts of a thrown error's message.
Parts(message) == {message[i] : i \in 1..Len(message)}

\* Outcomes that are errors shown to the user.
UserFacing == {"UserError", "InvalidParams"}
\* Outcomes that are errors not attributed to the user's input.
Internal == {"Error", "TypeError"}

\* C11: executeBatchUpdate with an empty or missing request list returns an
\* empty result at once and sends no batchUpdate call.
C11_EmptyListIsNoOp ==
    (BatchInvoked /\ toolArgs[1].requests \in {Null, Some(<<>>)})
       => /\ toolPc = "done"
          /\ toolResult.outcome = "returned"
          /\ toolResult.value = Some([replies |-> <<>>])
          /\ batchCalls = <<>>

\* C11 witness: the empty list was passed and the empty result returned.
C11_Witness ==
    /\ BatchInvoked
    /\ toolArgs[1].requests = Some(<<>>)
    /\ toolResult.outcome = "returned"

\* C12: a rejected batchUpdate call is always re-raised: 403 as a user-facing
\* error and 404 as a user-facing error, both naming the document, and anything
\* that is not 403, 404 or a validation rejection as an internal error.
C12_FailuresAreReRaised ==
    (BatchInvoked /\ caught # Null) =>
       LET error == caught[1]
           documentId == toolArgs[1].documentId
       IN  /\ toolResult.outcome \in UserFacing \cup Internal
           /\ toolResult.value = Null
           /\ error.code = 403 =>
                 /\ toolResult.outcome = "UserError"
                 /\ documentId \in Parts(toolResult.message)
                 /\ "Permission denied for document (ID: " \in Parts(toolResult.message)
           /\ error.code = 404 =>
                 /\ toolResult.outcome = "UserError"
                 /\ documentId \in Parts(toolResult.message)
                 /\ "Document not found (ID: " \in Parts(toolResult.message)
           /\ (error.code \notin {403, 404}
                 /\ ~(error.code = 400 /\ error.message = Some(InvalidRequestsMessage)))
              => toolResult.outcome \in Internal

\* C12 witness: a 403 rejection was re-raised as a user-facing error.
C12_Witness ==
    /\ BatchInvoked
    /\ caught # Null
    /\ caught[1].code = 403
    /\ toolResult.outcome = "UserError"

\* The ways an invocation that sent its list can end.
Succeeded == caught = Null /\ toolResult.outcome = "returned"
Rejected == caught # Null /\ toolResult.outcome = "UserError"
TransportFailed == caught # Null /\ toolResult.outcome \in Internal

\* C21: for a non-empty request list, also one longer than
\* MAX_BATCH_UPDATE_REQUESTS, executeBatchUpdate sends exactly one batchUpdate
\* call that carries the whole list in its order, and ends in exactly one of
\* Succeeded, Rejected or TransportFailed: nothing is sent again after a
\* failure and the list is never split.
C21_OneCallWholeList ==
    (BatchInvoked /\ ~NothingToDo(toolArgs[1].requests)) =>
       /\ batchCalls = <<[documentId |-> toolArgs[1].documentId,
                          requests   |-> toolArgs[1].requests[1]]>>
       /\ toolPc \in {"batchUpdate", "done"}
       /\ toolPc = "batchUpdate" => toolResult = NoResult /\ caught = Null
       /\ toolPc = "done" =>
             Cardinality({k \in 1..3 : <<Succeeded, Rejected, TransportFailed>>[k]}) = 1

\* C21 witness: a list longer than MAX_BATCH_UPDATE_REQUESTS was sent in one
\* call and the call was rejected.
C21_Witness ==
    /\ BatchInvoked
    /\ toolPc = "done"
    /\ ~NothingToDo(toolArgs[1].requests)
    /\ Len(toolArgs[1].requests[1]) > MAX_BATCH_UPDATE_REQUESTS
    /\ caught # Null
    /\ Len(batchCalls) = 1
    /\ batchCalls[1].requests = toolArgs[1].requests[1]

\* C22: a status-400 rejection of a batch is re-raised by executeBatchUpdate as
\* a user-facing error that carries the detail the remote API gave, never as
\* an internal error.
C22_Status400IsUserFacing ==
    (BatchInvoked /\ caught # Null /\ caught[1].code = 400) =>
       /\ toolResult.outcome = "UserError"
       /\ \/ caught[1].details # Null /\ caught[1].details[1] \in Parts(toolResult.message)
          \/ caught[1].message # Null /\ caught[1].message[1] \in Parts(toolResult.message)

\* -------------------------------------------------- claims: the tools
\* The index pair the caller supplied to deleteRange, or as the range target of
\* applyTextStyle or applyParagraphStyle; Null where there is none.
SuppliedRange ==
    IF tool = "deleteRange" THEN Some(toolArgs[1].range)
    ELSE IF tool \in {"applyTextStyle", "applyParagraphStyle"}
            /\ "startIndex" \in DOMAIN toolArgs[1].target
    THEN Some(toolArgs[1].target)
    ELSE Null

\* C13: deleteRange, applyTextStyle and applyParagraphStyle reject every supplied
\* pair with endIndex <= startIndex with a user-facing error, and neither fetch
\* the document nor send a batchUpdate call.
C13_InvalidRangeRejected ==
    (SuppliedRange # Null /\ SuppliedRange[1].endIndex <= SuppliedRange[1].startIndex)
       => /\ toolPc = "done"
          /\ toolResult.outcome \in UserFacing
          /\ toolResult.value = Null
          /\ toolFetches = 0
          /\ batchCalls = <<>>

\* C13 witness: applyTextStyle rejected an empty range although a style option
\* was set.
C13_Witness ==
    /\ tool = "applyTextStyle"
    /\ SuppliedRange # Null
    /\ SuppliedRange[1].endIndex = SuppliedRange[1].startIndex
    /\ toolArgs[1].style.bold # Null
    /\ toolResult.outcome = "UserError"

MaxCallers == 3
MaxAuthorizations == 3
Callers == 1..MaxCallers

\* The client the n-th authorize() invocation resolves with, and
\* google.docs({ version: 'v1', auth }).
Client(n) == [client |-> n]
Docs(auth) == [auth |-> auth, version |-> "v1"]

InitClient ==
    /\ authClient = Null
    /\ googleDocs = Null
    /\ initPc = [c \in Callers |-> "idle"]
    /\ awaited = [c \in Callers |-> 0]
    /\ initResult = [c \in Callers |-> NoResult]
    /\ authorizeCalls = 0
    /\ authFailed = FALSE
    /\ installed = <<>>

\* The statements after the authorization block, run with authClient = auth and
\* googleDocs = docs: a missing Docs handle is made from the client, the call
\* throws if there is still none, and returns both otherwise.
InitializationTail(c, auth, docs) ==
    LET docs2 == IF auth # Null /\ docs = Null THEN Some(Docs(auth[1])) ELSE docs
    IN  /\ googleDocs' = docs2
        /\ installed' = IF docs2 # googleDocs /\ docs2 # Null
                        THEN Append(installed, docs2[1]) ELSE installed
        /\ IF docs2 = Null
           THEN /\ initResult' = [initResult EXCEPT ![c] =
                       Thrown("Error", <<"Google Docs client could not be initialized.">>)]
                /\ initPc' = [initPc EXCEPT ![c] = "failed"]
           ELSE /\ initResult' = [initResult EXCEPT ![c] =
                       Returned([authClient |-> auth, googleDocs |-> docs2])]
                /\ initPc' = [initPc EXCEPT ![c] = "returned"]

\* initializeGoogleClient() is called by c: with a Docs handle it returns at
\* once; without a client it calls authorize() and awaits it; otherwise it goes
\* on to the statements after the authorization block.
InitializeCall(c) ==
    /\ UNCHANGED <<findVars, paraVars, styleVars, colorVars, toolVars>>
    /\ initPc[c] = "idle"
    /\ IF googleDocs # Null
       THEN /\ initResult' = [initResult EXCEPT ![c] =
                   Returned([authClient |-> authClient, googleDocs |-> googleDocs])]
            /\ initPc' = [initPc EXCEPT ![c] = "returned"]
            /\ UNCHANGED <<authClient, googleDocs, awaited, authorizeCalls,
                           authFailed, installed>>
       ELSE IF authClient = Null
       THEN /\ authorizeCalls < MaxAuthorizations
            /\ authorizeCalls' = authorizeCalls + 1
            /\ awaited' = [awaited EXCEPT ![c] = authorizeCalls + 1]
            /\ initPc' = [initPc EXCEPT ![c] = "authorizing"]
            /\ UNCHANGED <<authClient, googleDocs, initResult, authFailed, installed>>
       ELSE /\ InitializationTail(c, authClient, googleDocs)
            /\ UNCHANGED <<authClient, awaited, authorizeCalls, authFailed>>

\* authorize() resolves for c: the client and a Docs handle made from it are
\* assigned, and the call runs to its return.
AuthorizeResolves(c) ==
    /\ UNCHANGED <<findVars, paraVars, styleVars, colorVars, toolVars>>
    /\ initPc[c] = "authorizing"
    /\ authClient' = Some(Client(awaited[c]))
    /\ InitializationTail(c, Some(Client(awaited[c])), Some(Docs(Client(awaited[c]))))
    /\ awaited' = [awaited EXCEPT ![c] = 0]
    /\ UNCHANGED <<authorizeCalls, authFailed>>

\* Mutant of AuthorizeRejects: the catch block leaves the handles as they are.
AuthorizeRejects_KeepsHandles(c) ==
    /\ UNCHANGED <<findVars, paraVars, styleVars, colorVars, toolVars>>
    /\ initPc[c] = "authorizing"
    /\ authFailed' = TRUE
    /\ initResult' = [initResult EXCEPT ![c] =
          Thrown("Error", <<"Google client initialization failed. Cannot start server tools.">>)]
    /\ initPc' = [initPc EXCEPT ![c] = "failed"]
    /\ awaited' = [awaited EXCEPT ![c] = 0]
    /\ UNCHANGED <<authClient, googleDocs, authorizeCalls, installed>>

\* authorize() rejects for c: the catch block resets both handles and throws.
AuthorizeRejects(c) ==
    /\ UNCHANGED <<findVars, paraVars, styleVars, colorVars, toolVars>>
    /\ initPc[c] = "authorizing"
    /\ authClient' = Null
    /\ googleDocs' = Null
    /\ authFailed' = TRUE
    /\ initResult' = [initResult EXCEPT ![c] =
          Thrown("Error", <<"Google client initialization failed. Cannot start server tools.">>)]
    /\ initPc' = [initPc EXCEPT ![c] = "failed"]
    /\ awaited' = [awaited EXCEPT ![c] = 0]
    /\ UNCHANGED <<authorizeCalls, installed>>

\* c has the outcome of its call.
InitializeReturn(c) ==
    /\ UNCHANGED <<findVars, paraVars, styleVars, colorVars, toolVars>>
    /\ initPc[c] \in {"returned", "failed"}
    /\ initPc' = [initPc EXCEPT ![c] = "idle"]
    /\ initResult' = [initResult EXCEPT ![c] = NoResult]
    /\ UNCHANGED <<authClient, googleDocs, awaited, authorizeCalls, authFailed, installed>>

\* ------------------------------------- claims: fetches and calls per tool
\* The exposed operations that edit a document.
EditingTools ==
    {"insertText", "deleteRange", "applyTextStyle", "applyParagraphStyle",
     "formatMatchingText", "insertTable", "insertPageBreak"}

\* The documents.get calls answered so far in the running invocation: those of
\* the helpers that have returned and those of the helper that is running.
Fetched == toolFetches + fetches + paraFetches

\* C23: each exposed editing operation fetches the document structure at most
\* once per invocation and then sends at most one batchUpdate call, whichever
\* form of target is used.
C23_OneFetchThenOneCall ==
    tool \in EditingTools =>
       /\ Fetched <= 1
       /\ Len(batchCalls) <= 1
       /\ batchCalls # <<>> => pc = "idle" /\ paraPc = "idle"

\* ------------------------------------- claims: lookups inside the tools
\* The tools that look a target up.
LookupTools == {"applyTextStyle", "applyParagraphStyle", "formatMatchingText"}

\* findTextRange or getParagraphRange has returned null to the running tool.
LookupNotFound ==
    /\ tool \in LookupTools
    /\ \/ toolPc = "findTextRange" /\ pc = "done" /\ outcome = "returned" /\ result = Null
       \/ /\ toolPc = "getParagraphRange" /\ paraPc = "done"
          /\ paraOutcome = "returned" /\ paragraphRange = Null

\* The places of a message template where the target the caller gave is put.
TargetPlaceholders ==
    {"${args.target.textToFind}", "${args.textToFind}",
     "${args.target.indexWithinParagraph}"}

\* C25: when findTextRange or getParagraphRange returns null inside
\* applyTextStyle, applyParagraphStyle or formatMatchingText, the operation
\* ends with a user-facing error whose message names the target, sends no
\* batchUpdate call and does not repeat the lookup.
C25_NotFoundNamesTarget ==
    [][LookupNotFound =>
          /\ toolPc' = "done"
          /\ toolResult'.outcome = "UserError"
          /\ Parts(toolResult'.message) \cap TargetPlaceholders # {}
          /\ batchCalls' = <<>>
          /\ pc' = "idle" /\ paraPc' = "idle"]_vars

\* The style record of the running style tool has no option set.
NoOptionSet ==
    /\ tool \in {"applyTextStyle", "applyParagraphStyle"}
    /\ toolArgs[1].style \in {NoTextStyle, NoParagraphStyle}

\* What a style tool returns when there is nothing to apply.
NoActionResult == Returned(<<"No valid styling options were provided.">>)

\* C26, as stated: with no option set in the style record, applyTextStyle and
\* applyParagraphStyle return the no-action result, raise no error and send no
\* batchUpdate call.
C26_NoOptionIsNoAction ==
    (NoOptionSet /\ toolPc = "done") =>
       /\ toolResult = NoActionResult
       /\ batchCalls = <<>>

\* The range the running style tool is about to work on in the step that ends
\* it: the pair supplied, or what the lookup it awaited has returned.
ResolvedRange ==
    IF "startIndex" \in DOMAIN toolArgs'[1].target THEN Some(toolArgs'[1].target)
    ELSE IF toolPc = "findTextRange" /\ outcome = "returned" THEN result
    ELSE IF toolPc = "getParagraphRange" /\ paraOutcome = "returned" THEN paragraphRange
    ELSE Null

\* C26, amended: with no option set no batchUpdate call is ever sent, and when
\* the target resolves to a range with endIndex > startIndex (a supplied pair,
\* or a lookup that succeeded) the operation returns the no-action result and
\* raises no error.
C26_NoOptionOnValidRange ==
    /\ [](NoOptionSet => batchCalls = <<>>)
    /\ [][(/\ toolPc # "done" /\ toolPc' = "done"
           /\ tool' \in {"applyTextStyle", "applyParagraphStyle"}
           /\ toolArgs'[1].style \in {NoTextStyle, NoParagraphStyle}
           /\ ResolvedRange # Null
           /\ ResolvedRange[1].endIndex > ResolvedRange[1].startIndex)
          => toolResult' = NoActionResult]_vars

\* C26 witness: applyParagraphStyle looked a text target up, found its
\* paragraph and returned the no-action result.
C26_Witness ==
    /\ tool = "applyParagraphStyle"
    /\ "textToFind" \in DOMAIN toolArgs[1].target
    /\ toolArgs[1].style = NoParagraphStyle
    /\ toolPc = "done"
    /\ toolFetches = 2
    /\ toolResult = NoActionResult
    /\ batchCalls = <<>>

HandleImpliesClient == googleDocs # Null => authClient # Null

\* A call that has returned normally has returned a Docs handle.
ReturnedHandles ==
    \A c \in Callers :
       initPc[c] = "returned" =>
          /\ initResult[c].outcome = "returned"
          /\ initResult[c].value[1].googleDocs # Null

\* The step in which a call's authorization fails leaves no client and no
\* handle behind.
FailureLeavesNull ==
    \A c \in Callers :
       (initPc[c] = "authorizing" /\ initPc'[c] = "failed")
          => (authClient' = Null /\ googleDocs' = Null)

\* A call made while there is no client and no handle invokes authorize().
CallWithoutClientAuthorizes ==
    \A c \in Callers :
       (authClient = Null /\ googleDocs = Null /\ initPc[c] = "idle" /\ initPc'[c] # "idle")
          => (initPc'[c] = "authorizing" /\ authorizeCalls' = authorizeCalls + 1)

\* C30: at every point between the steps of initializeGoogleClient calls a Docs
\* handle implies a client; a call that returns normally returns a Docs
\* handle; a call whose authorization fails leaves client and handle null, and
\* the next call attempts authorization again.
C30_HandlesConsistent ==
    /\ [](HandleImpliesClient /\ ReturnedHandles)
    /\ [][FailureLeavesNull /\ CallWithoutClientAuthorizes]_vars

\* C30 witness: after a failed authorization a later call has authorized again
\* and returned a Docs handle.
C30_Witness ==
    /\ authFailed
    /\ authClient # Null
    /\ \E c \in Callers :
          /\ initPc[c] = "returned"
          /\ initResult[c].value[1].googleDocs = googleDocs
          /\ googleDocs[1].auth.client >= 2

\* ------------------------------------------------------- specifications
Init == InitFind /\ InitParagraph /\ InitStyle /\ InitColor /\ InitTools /\ InitClient

\* Each disjunct repeats its action's control-point guard ahead of the choice of
\* inputs, so that the inputs are enumerated only where the action can happen.
Next ==
    \/ pc = "idle" /\ \E text \in SearchStrings, n \in 1..MaxInstance :
                         FindTextRangeCall(TestDocument, text, n)
    \/ pc = "fetching" /\ \E d \in 0..MaxDepth, runs \in RunLists :
                             \E gap \in 0..(Len(runs) - 1) :
                                FetchReturnsContent(Body(d, runs, gap))
    \/ FetchReturnsContent(TestBody)
    \/ FetchReturnsNoContent
    \/ pc = "fetching" /\ \E code \in ErrorCodes : FetchFails(code)
    \/ LoopIteration
    \/ FindTextRangeReturn

\* findTextRange against every generated snapshot.
Spec == Init /\ [][Next]_vars

NextParagraph ==
    \/ paraPc = "idle" /\ \E index \in 0..MaxOffset : GetParagraphRangeCall(TestDocument, index)
    \/ paraPc = "fetching" /\ \E d \in 0..MaxDepth, runs \in RunLists :
                                 \E gap \in 0..(Len(runs) - 1) :
                                    ParagraphFetchReturnsContent(Body(d, runs, gap))
    \/ paraPc = "fetching" /\ \E d \in 0..MaxDepth, runs \in RunLists :
                                 \E gap \in 0..(Len(runs) - 1) :
                                    ParagraphFetchReturnsContent(BodyWithContents(d, runs, gap))
    \/ ParagraphFetchReturnsNoContent
    \/ paraPc = "fetching" /\ \E code \in ErrorCodes : ParagraphFetchFails(code)
    \/ GetParagraphRangeReturn

\* getParagraphRange against every generated snapshot.
SpecParagraph == Init /\ [][NextParagraph]_vars

NextStyle ==
    \/ builder = "none" /\ \E range \in StyleRanges, style \in TextStyleArgs :
                              BuildTextStyle(range, style)
    \/ builder = "none" /\ \E range \in StyleRanges, style \in ParagraphStyleArgs :
                              BuildParagraphStyle(range, style)
    \/ BuilderReturn

\* The style request builders on every generated option record.
SpecStyle == Init /\ [][NextStyle]_vars

NextColor ==
    \/ hex = Null /\ \E color \in ColorStrings : ConvertColor(color)
    \/ ColorReturn

\* The hex colour helpers on every generated string.
SpecColor == Init /\ [][NextColor]_vars

NextTools ==
    \/ toolPc = "idle" /\ \E documentId \in DocumentIds, requests \in RequestLists :
                             ExecuteBatchUpdateCall(documentId, requests)
    \/ BatchUpdateSucceeds
    \/ toolPc = "batchUpdate" /\ \E error \in RemoteErrors : BatchUpdateFails(error)
    \/ toolPc = "idle" /\ \E documentId \in DocumentIds, range \in ToolRanges :
                             DeleteRangeCall(documentId, range)
    \/ toolPc = "idle" /\ \E documentId \in DocumentIds, style \in ToolTextStyles,
                             target \in ToolRanges \cup TextTargets :
                             ApplyTextStyleCall(documentId, target, style)
    \/ toolPc = "findTextRange" /\ pc = "idle"
          /\ FindTextRangeCall(toolArgs[1].documentId, SearchText, SearchInstance)
    \/ toolPc = "findTextRange" /\ FetchReturnsContent(TestBody)
    \/ toolPc = "findTextRange" /\ FetchReturnsNoContent
    \/ toolPc = "findTextRange" /\ pc = "fetching" /\ \E code \in ErrorCodes : FetchFails(code)
    \/ toolPc = "findTextRange" /\ LoopIteration
    \/ ApplyTextStyleFound
    \/ toolPc = "idle" /\ \E documentId \in DocumentIds, style \in ToolParagraphStyles,
                             target \in ToolRanges \cup TextTargets \cup IndexTargets
                                        \cup {[textToFind |-> TestWord]} :
                             ApplyParagraphStyleCall(documentId, target, style)
    \/ ApplyParagraphStyleTextFound
    \/ toolPc = "getParagraphRange" /\ \E content \in ToolBodies :
                                          ParagraphFetchReturnsContent(content)
    \/ toolPc = "getParagraphRange" /\ ParagraphFetchReturnsNoContent
    \/ toolPc = "getParagraphRange" /\ paraPc = "fetching"
          /\ \E code \in ErrorCodes : ParagraphFetchFails(code)
    \/ ApplyParagraphStyleParagraphFound
    \/ toolPc = "idle" /\ \E documentId \in DocumentIds, style \in ToolTextStyles,
                             text \in {<<>>, TestWord, <<"z">>}, n \in 1..MaxInstance :
                             FormatMatchingTextCall(documentId, text, n, style)
    \/ FormatMatchingTextFound
    \/ toolPc = "idle" /\ \E documentId \in DocumentIds, text \in {<<>>, TestWord},
                             index \in 0..1 :
                             InsertTextCall(documentId, text, index)
    \/ toolPc = "idle" /\ \E documentId \in DocumentIds, rows \in 0..1, columns \in 0..1,
                             index \in 0..1 :
                             InsertTableCall(documentId, rows, columns, index)
    \/ toolPc = "idle" /\ \E documentId \in DocumentIds, index \in 0..1 :
                             InsertPageBreakCall(documentId, index)
    \/ toolPc = "idle" /\ \E name \in StubNames, documentId \in DocumentIds,
                             range \in {Null} \cup {Some(r) : r \in ToolRanges} :
                             StubCall(name, documentId, range)
    \/ ToolReturn

\* executeBatchUpdate and the tools that call it.
SpecTools == Init /\ [][NextTools]_vars

NextHelpers ==
    \/ pc = "idle" /\ paraPc = "idle"
          /\ \E id \in DocumentIds, text \in SearchStrings, n \in 1..MaxInstance :
                FindTextRangeCall(id, text, n)
    \/ pc = "fetching" /\ \E d \in 0..1, runs \in RunLists :
                             \E gap \in 0..(Len(runs) - 1) :
                                FetchReturnsContent(Body(d, runs, gap))
    \/ FetchReturnsNoContent
    \/ pc = "fetching" /\ \E code \in ErrorCodes : FetchFails(code)
    \/ LoopIteration
    \/ FindTextRangeReturn
    \/ pc = "idle" /\ paraPc = "idle"
          /\ \E id \in DocumentIds, index \in 0..MaxOffset : GetParagraphRangeCall(id, index)
    \/ paraPc = "fetching" /\ \E d \in 0..1, runs \in RunLists :
                                 \E gap \in 0..(Len(runs) - 1) :
                                    ParagraphFetchReturnsContent(Body(d, runs, gap))
    \/ ParagraphFetchReturnsNoContent
    \/ paraPc = "fetching" /\ \E code \in ErrorCodes : ParagraphFetchFails(code)
    \/ GetParagraphRangeReturn

\* findTextRange and getParagraphRange called one after the other, for either
\* document.
SpecHelpers == Init /\ [][NextHelpers]_vars

NextClient ==
    \/ \E c \in Callers : InitializeCall(c)
    \/ \E c \in Callers : AuthorizeResolves(c)
    \/ \E c \in Callers : AuthorizeRejects(c)
    \/ \E c \in Callers : InitializeReturn(c)

\* initializeGoogleClient called by several callers, in sequence and overlapping.
SpecClient == Init /\ [][NextClient]_vars

====
